---- MODULE Spec2Model ----
(***************************************************************************)
(* Interactive detection-to-replacement pipeline of grok-web-automation.   *)
(*                                                                         *)
(* Numbers.  Pixel coordinates are integers.  Detector confidences are in  *)
(* hundredths (0.35 is 35).  Each of the five intention factors is held in *)
(* units of 1/FactorScale and the weighted total in units of               *)
(* 1/(100*FactorScale), so the weights 0.30/0.20/0.15/0.15/0.20 are the    *)
(* integers 30/20/15/15/20.  Enclosure, containment and confidence are     *)
(* exact in these units; the size ratio is rounded down and the distance   *)
(* ratio (a square root) is rounded down to the unit.                      *)
(***************************************************************************)
EXTENDS Integers, Sequences, FiniteSets, TLC

VARIABLES
    iPc,          \* intention resolver call: "ready" | "done" | "again"
    iPath,        \* argument path of analyzeUserIntention
    iObjects,     \* argument objects of analyzeUserIntention
    iScored,      \* scoredObjects after the sort (empty for an empty path)
    iResult,      \* the list analyzeUserIntention returned
    iPrev         \* the list the call before the last one returned

intentVars == <<iPc, iPath, iObjects, iScored, iResult, iPrev>>

VARIABLES
    useAdvancedDetection, \* PenSelector state: YOLO11 is tried first
    rPc,             \* recognition run: "idle" | "yolo" | "google" | "fuse" |
                     \*   "resolved" (mutationFn returned) | "settled"
    rPath,           \* recognitionMutation.variables.drawingPath
    yoloObjects,     \* mutationFn local
    googleObjects,   \* mutationFn local
    yoloFailed,      \* the YOLO call threw (its catch block ran)
    googleFailed,    \* the Google Vision call threw (its catch block ran)
    hybridObjects,   \* mutationFn local, the objects of the response
    mutationStatus,  \* "idle" | "pending" | "success" | "error"
    detectedObjects, \* PenSelector state
    toastTitle       \* title of the last toast, "" before any

recVars == <<useAdvancedDetection, rPc, rPath, yoloObjects, googleObjects,
             yoloFailed, googleFailed, hybridObjects, mutationStatus,
             detectedObjects, toastTitle>>

VARIABLES
    wKind,       \* the workflow running: "none" | "sceneDiff" | "extract" |
                 \*   "twoStep" | "removeObject" | "stepByStep" | "placeWithMask"
    wPc,         \* the await the workflow is suspended at, "idle" | ... | "done"
    wImage,      \* width and height of the original image
    wMask,       \* segmentationMask, with the size of the image it was drawn on
    wGenerated,  \* width and height of the generated image, NoDims before
    wClean,      \* an object-removed image has been produced
    wCropped,    \* a cropped object has been produced
    wObject,     \* what is placed: "none" | "extracted" | "segmented" | "full"
    wApplied,    \* history: every application of a mask raster to an image
    wProgress,   \* history: the onProgress events of replaceObjectStepByStep
    wFailed,     \* history: the steps whose external call failed
    wUpstream,   \* history: the error messages of those failed calls
    wResult      \* what the caller receives

wfVars == <<wKind, wPc, wImage, wMask, wGenerated, wClean, wCropped, wObject,
            wApplied, wProgress, wFailed, wUpstream, wResult>>

VARIABLES
    mOp,       \* "none" | "cropObjectFromImage" | "createSimpleMask" |
               \*   "createBoundingBoxMask"
    mPc,       \* "idle" | "done"
    mImage,    \* width and height of the image
    mInput,    \* the polygon (flat list) or the bounds, in half pixels
    mRect,     \* the crop or white rectangle as the code computes it, in pixels
    mWhite,    \* pixels of the crop, or white pixels of the mask
    mOutcome   \* "none" | "success" (a value is returned) | "failure"

maskVars == <<mOp, mPc, mImage, mInput, mRect, mWhite, mOutcome>>

VARIABLES
    sPc,       \* coordinate rescaling: "off" | "ready" | "scaled" | "back"
    sCoords,   \* the flat coordinate list x0, y0, x1, y1, ... (whole pixels)
    sFrom,     \* size of the image the coordinates belong to
    sTo,       \* size of the image they are rescaled for
    sScaled,   \* the list after rescaling from sFrom to sTo (doubles)
    sBack      \* the list after rescaling sScaled from sTo to sFrom (doubles)

scaleVars == <<sPc, sCoords, sFrom, sTo, sScaled, sBack>>

VARIABLES
    pPc,               \* the canvas: "off" | "mounted"
    isDrawing,         \* PenSelector state
    currentPath,       \* PenSelector state: the points of the path on the canvas
    imageLoads,        \* new Image() objects whose onload has not run yet
    inFlight,          \* mutations whose mutationFn has not settled yet
    currentMutation,   \* number of the latest mutate call, 0 before any
    mutationVariables, \* recognitionMutation.variables.drawingPath
    shownObjects,      \* PenSelector state detectedObjects, as rendered
    requestCount,      \* how many recognition requests were started
    lastApplied        \* history: what the last onSuccess put on the screen

pointerVars == <<pPc, isDrawing, currentPath, imageLoads, inFlight, currentMutation,
                 mutationVariables, shownObjects, requestCount, lastApplied>>

VARIABLES
    gPc,                 \* the selection interface: "off" | "mounted"
    gPath,               \* PenSelector state currentPath.points
    gDetected,           \* PenSelector state detectedObjects
    selectedObjectForModification,    \* PenSelector state; <<>> is null
    selectedObjectForGrokReplacement, \* PenSelector state; <<>> is null
    replacementPrompt,   \* GrokObjectReplacer state
    isProcessing,        \* GrokObjectReplacer state
    processedImageUrl,   \* PenSelector state: "original" | "final"
    gPicked,             \* history: the object last clicked and the list shown then
    gStarted             \* history: the selection handleReplace ran the workflow for

replVars == <<gPc, gPath, gDetected, selectedObjectForModification,
              selectedObjectForGrokReplacement, replacementPrompt, isProcessing,
              processedImageUrl, gPicked, gStarted>>

VARIABLES
    ePc,         \* the server: "off" | "idle" | the await a handler is suspended at
    eRequest,    \* the request being handled: path and the body fields
    eHandler,    \* the router whose handler took the request, "none" before
    eTried,      \* the upstream calls made for the request, in order
    eSent,       \* how many responses were sent for the request
    eCount,      \* how many requests were received
    eResponses   \* history: every response, with the calls made before it

editVars == <<ePc, eRequest, eHandler, eTried, eSent, eCount, eResponses>>

vars == <<intentVars, recVars, wfVars, maskVars, scaleVars, pointerVars, replVars,
          editVars>>

(***************************************************************************)
(* Bounds of the model.                                                    *)
(***************************************************************************)
MaxCands == 4
MaxShortCands == 2
MaxDet == 2

(***************************************************************************)
(* Program constants.                                                      *)
(***************************************************************************)
SamplePoints == 15
FactorScale == 900
MeaningfulPct == 30
TieBreakPct == 20
MaxResults == 3

Min2(a, b) == IF a < b THEN a ELSE b
Max2(a, b) == IF a > b THEN a ELSE b

SeqMin(s) == CHOOSE m \in {s[i] : i \in 1..Len(s)} : \A i \in 1..Len(s) : m <= s[i]
SeqMax(s) == CHOOSE m \in {s[i] : i \in 1..Len(s)} : \A i \in 1..Len(s) : m >= s[i]

\* floor of the square root of n >= 0, by bisection on [lo, hi)
RECURSIVE ISqrtBetween(_, _, _)
ISqrtBetween(n, lo, hi) ==
    IF hi - lo <= 1 THEN lo
    ELSE LET mid == (lo + hi) \div 2
         IN IF mid * mid <= n THEN ISqrtBetween(n, mid, hi)
                              ELSE ISqrtBetween(n, lo, mid)

ISqrt(n) == ISqrtBetween(n, 0, 46341)

(***************************************************************************)
(* Geometry helpers of PenSelector.                                        *)
(***************************************************************************)
\* Variant of getPathBounds that reports the largest coordinates as the size.
getPathBoundsFromOrigin(path) ==
    IF Len(path) = 0 THEN [x |-> 0, y |-> 0, width |-> 0, height |-> 0]
    ELSE LET xs == [i \in 1..Len(path) |-> path[i].x]
             ys == [i \in 1..Len(path) |-> path[i].y]
         IN [x |-> SeqMin(xs), y |-> SeqMin(ys),
             width |-> SeqMax(xs), height |-> SeqMax(ys)]

\* getPathBounds: the zero box for an empty path, else min/max of the points
getPathBounds(path) ==
    IF Len(path) = 0 THEN [x |-> 0, y |-> 0, width |-> 0, height |-> 0]
    ELSE LET xs == [i \in 1..Len(path) |-> path[i].x]
             ys == [i \in 1..Len(path) |-> path[i].y]
         IN [x |-> SeqMin(xs), y |-> SeqMin(ys),
             width |-> SeqMax(xs) - SeqMin(xs),
             height |-> SeqMax(ys) - SeqMin(ys)]

\* One step of the ray-casting loop for the edge path[i], path[j]; the query
\* point is (xn/d, yn/d) with d > 0.  The code's test
\*   x < (xj - xi) * (y - yi) / (yj - yi) + xi
\* is cross-multiplied by d and by (yj - yi), whose sign flips the comparison.
EdgeCrosses(xn, yn, d, pi, pj) ==
    /\ (pi.y * d > yn) # (pj.y * d > yn)
    /\ LET dy == pj.y - pi.y
           lhs == (xn - pi.x * d) * dy
           rhs == (pj.x - pi.x) * (yn - pi.y * d)
       IN IF dy > 0 THEN lhs < rhs ELSE lhs > rhs

\* Variant of isPointInPath that takes a path under 3 vertices to contain
\* every point.
isPointInPathShortInside(xn, yn, d, path) ==
    IF Len(path) < 3 THEN TRUE
    ELSE LET n == Len(path)
             prev(i) == IF i = 1 THEN n ELSE i - 1
             crossings == {i \in 1..n : EdgeCrosses(xn, yn, d, path[i], path[prev(i)])}
         IN Cardinality(crossings) % 2 = 1

\* isPointInPath: false under 3 vertices, else the parity of the crossings,
\* j running one behind i and starting at the last vertex
isPointInPath(xn, yn, d, path) ==
    IF Len(path) < 3 THEN FALSE
    ELSE LET n == Len(path)
             prev(i) == IF i = 1 THEN n ELSE i - 1
             crossings == {i \in 1..n : EdgeCrosses(xn, yn, d, path[i], path[prev(i)])}
         IN Cardinality(crossings) % 2 = 1

\* Variant of the enclosure score that samples the four corners only.
calculateEnclosureScoreCorners(path, obj) ==
    LET inside == {ij \in (0..1) \X (0..1) :
                     isPointInPath(obj.x + obj.width * ij[1],
                                   obj.y + obj.height * ij[2], 1, path)}
    IN (Cardinality(inside) * FactorScale) \div 4

\* calculateEnclosureScore: the count of the 15 x 15 sample points inside
\* the path, in units of 1/FactorScale
calculateEnclosureScore(path, obj) ==
    LET d == SamplePoints - 1
        inside == {ij \in (0..d) \X (0..d) :
                     isPointInPath(obj.x * d + obj.width * ij[1],
                                   obj.y * d + obj.height * ij[2], d, path)}
    IN (Cardinality(inside) * FactorScale) \div (SamplePoints * SamplePoints)

\* calculateContainmentScore: the share of the four corners inside the path
calculateContainmentScore(path, obj) ==
    LET objCorners == << [x |-> obj.x, y |-> obj.y],
                         [x |-> obj.x + obj.width, y |-> obj.y],
                         [x |-> obj.x + obj.width, y |-> obj.y + obj.height],
                         [x |-> obj.x, y |-> obj.y + obj.height] >>
        contained == {k \in 1..4 : isPointInPath(objCorners[k].x, objCorners[k].y, 1, path)}
    IN (Cardinality(contained) * FactorScale) \div 4

(***************************************************************************)
(* Intention resolver (analyzeUserIntention).                              *)
(***************************************************************************)
WEnclosure == 30
WDistance == 20
WSize == 15
WConfidence == 15
WContainment == 20

\* One element of scoredObjects.  Candidates have positive width and height,
\* so Math.max(pathArea, objArea) > 0.  Centres are kept doubled (2*x + width)
\* so that d4 is four times the squared centre distance; Math.max(maxDistance, 1)
\* is the root of Max2(width^2 + height^2, 1).
ScoreObject(path, pathBounds, obj) ==
    LET pathArea == pathBounds.width * pathBounds.height
        objArea == obj.width * obj.height
        enclosureScore == calculateEnclosureScore(path, obj)
        dx2 == (2 * pathBounds.x + pathBounds.width) - (2 * obj.x + obj.width)
        dy2 == (2 * pathBounds.y + pathBounds.height) - (2 * obj.y + obj.height)
        d4 == dx2 * dx2 + dy2 * dy2
        maxSq == Max2(pathBounds.width * pathBounds.width
                      + pathBounds.height * pathBounds.height, 1)
        distanceScore == FactorScale - ISqrt((d4 * FactorScale * FactorScale) \div (4 * maxSq))
        sizeScore == (Min2(pathArea, objArea) * FactorScale) \div Max2(pathArea, objArea)
        confidenceScore == (obj.confidence * FactorScale) \div 100
        containmentScore == calculateContainmentScore(path, obj)
    IN [object |-> obj,
        score |-> enclosureScore * WEnclosure + distanceScore * WDistance
                  + sizeScore * WSize + confidenceScore * WConfidence
                  + containmentScore * WContainment,
        factors |-> [enclosure |-> enclosureScore, distance |-> distanceScore,
                     size |-> sizeScore, confidence |-> confidenceScore,
                     containment |-> containmentScore]]

\* scoredObjects.sort((a, b) => b.score - a.score): stable, descending
RECURSIVE InsertByScore(_, _)
InsertByScore(sorted, item) ==
    IF sorted = <<>> THEN <<item>>
    ELSE IF Head(sorted).score >= item.score
         THEN <<Head(sorted)>> \o InsertByScore(Tail(sorted), item)
         ELSE <<item>> \o sorted

RECURSIVE SortByScore(_)
SortByScore(items) ==
    IF items = <<>> THEN <<>>
    ELSE InsertByScore(SortByScore(SubSeq(items, 1, Len(items) - 1)), items[Len(items)])

\* the sorted scoredObjects of a non-empty path
ScoredObjects(path, objects) ==
    LET pathBounds == getPathBounds(path)
    IN SortByScore([i \in 1..Len(objects) |-> ScoreObject(path, pathBounds, objects[i])])

\* Variant of the filter with the cut at 0.2 instead of 0.3.
MeaningfulObjectsLowCut(scored) ==
    SelectSeq(scored, LAMBDA item : item.score > TieBreakPct * FactorScale)

\* scoredObjects.filter(item => item.score > 0.3)
MeaningfulObjects(scored) ==
    SelectSeq(scored, LAMBDA item : item.score > MeaningfulPct * FactorScale)

\* Variant of the selection that forgets the slice to three.
SelectCandidatesUncapped(meaningful) ==
    IF Len(meaningful) = 0 THEN <<>>
    ELSE LET topScore == meaningful[1].score
             secondScore == IF Len(meaningful) >= 2 THEN meaningful[2].score ELSE 0
         IN IF topScore - secondScore > TieBreakPct * FactorScale
            THEN <<meaningful[1].object>>
            ELSE [i \in 1..Len(meaningful) |-> meaningful[i].object]

\* the selection after the filter: one clear winner, or the top three
SelectCandidates(meaningful) ==
    IF Len(meaningful) = 0 THEN <<>>
    ELSE LET topScore == meaningful[1].score
             secondScore == IF Len(meaningful) >= 2 THEN meaningful[2].score ELSE 0
         IN IF topScore - secondScore > TieBreakPct * FactorScale
            THEN <<meaningful[1].object>>
            ELSE [i \in 1..Min2(MaxResults, Len(meaningful)) |-> meaningful[i].object]

\* Variant of the resolver without the empty-path early return.
ResolveIntentionUnguarded(path, objects, scored) ==
    SelectCandidates(MeaningfulObjects(scored))

\* Variant of the resolver that reads the component's state: a repeated
\* call returns every candidate.
ResolveIntentionStateful(path, objects, scored) ==
    IF iPc = "done" \/ Len(path) = 0 THEN objects
    ELSE SelectCandidates(MeaningfulObjects(scored))

\* analyzeUserIntention from its already sorted scores
ResolveIntention(path, objects, scored) ==
    IF Len(path) = 0 THEN objects
    ELSE SelectCandidates(MeaningfulObjects(scored))

analyzeUserIntention(path, objects) ==
    ResolveIntention(path, objects,
                     IF Len(path) = 0 THEN <<>> ELSE ScoredObjects(path, objects))

(***************************************************************************)
(* Hybrid detection (recognitionMutation.mutationFn, step 3).              *)
(***************************************************************************)
ConfidenceThresholdPct == 35
SpatialOverlapTenths == 3
SameNameOverlapTenths == 1
DefaultGoogleConfidencePct == 60

\* a detection with its contour (flat x, y list; empty when there is none)
DetP(n, c, a, b, w, h, poly) ==
    [name |-> n, confidence |-> c, x |-> a, y |-> b, width |-> w, height |-> h,
     polygon |-> poly]

\* String.prototype.toLowerCase on the names that occur
ToLowerCase(name) ==
    CASE name = "Chair" -> "chair"
      [] name = "Table" -> "table"
      [] name = "Lamp" -> "lamp"
      [] OTHER -> name

\* objectsOverlap: overlapArea / unionArea > threshold, the threshold in
\* tenths; with unionArea = 0 the quotient is NaN and the comparison false
\* Variant of the overlap test that relates the overlap to the first box
\* alone instead of the union.
objectsOverlapOverFirst(obj1, obj2, thresholdTenths) ==
    LET obj1Right == obj1.x + obj1.width
        obj1Bottom == obj1.y + obj1.height
        obj2Right == obj2.x + obj2.width
        obj2Bottom == obj2.y + obj2.height
        overlapX == Max2(0, Min2(obj1Right, obj2Right) - Max2(obj1.x, obj2.x))
        overlapY == Max2(0, Min2(obj1Bottom, obj2Bottom) - Max2(obj1.y, obj2.y))
        overlapArea == overlapX * overlapY
        obj1Area == obj1.width * obj1.height
    IN obj1Area # 0 /\ overlapArea * 10 > thresholdTenths * obj1Area

\* calculateIoU of the client-side YOLO detector: intersection / union, kept
\* as the pair of the two whole numbers (0 / 0 is NaN in the code)
calculateIoU(box1, box2) ==
    LET x1 == Max2(box1.x, box2.x)
        y1 == Max2(box1.y, box2.y)
        x2 == Min2(box1.x + box1.width, box2.x + box2.width)
        y2 == Min2(box1.y + box1.height, box2.y + box2.height)
        intersection == Max2(0, x2 - x1) * Max2(0, y2 - y1)
        area1 == box1.width * box1.height
        area2 == box2.width * box2.height
        union == area1 + area2 - intersection
    IN [num |-> intersection, den |-> union]

\* calculateIoU of the YOLO11 detector
calculateIoU11(boxA, boxB) ==
    LET xA == Max2(boxA.x, boxB.x)
        yA == Max2(boxA.y, boxB.y)
        xB == Min2(boxA.x + boxA.width, boxB.x + boxB.width)
        yB == Min2(boxA.y + boxA.height, boxB.y + boxB.height)
        interArea == Max2(0, xB - xA) * Max2(0, yB - yA)
        boxAArea == boxA.width * boxA.height
        boxBArea == boxB.width * boxB.height
    IN [num |-> interArea, den |-> boxAArea + boxBArea - interArea]

objectsOverlap(obj1, obj2, thresholdTenths) ==
    LET obj1Right == obj1.x + obj1.width
        obj1Bottom == obj1.y + obj1.height
        obj2Right == obj2.x + obj2.width
        obj2Bottom == obj2.y + obj2.height
        overlapX == Max2(0, Min2(obj1Right, obj2Right) - Max2(obj1.x, obj2.x))
        overlapY == Max2(0, Min2(obj1Bottom, obj2Bottom) - Max2(obj1.y, obj2.y))
        overlapArea == overlapX * overlapY
        unionArea == obj1.width * obj1.height + obj2.width * obj2.height - overlapArea
    IN unionArea # 0 /\ overlapArea * 10 > thresholdTenths * unionArea

\* YOLO11APIDetector.supportedClasses (the COCO classes)
supportedClasses ==
    { "person", "bicycle", "car", "motorcycle", "airplane", "bus", "train", "truck", "boat",
      "traffic light", "fire hydrant", "stop sign", "parking meter", "bench", "bird", "cat",
      "dog", "horse", "sheep", "cow", "elephant", "bear", "zebra", "giraffe", "backpack",
      "umbrella", "handbag", "tie", "suitcase", "frisbee", "skis", "snowboard", "sports ball",
      "kite", "baseball bat", "baseball glove", "skateboard", "surfboard", "tennis racket",
      "bottle", "wine glass", "cup", "fork", "knife", "spoon", "bowl", "banana", "apple",
      "sandwich", "orange", "broccoli", "carrot", "hot dog", "pizza", "donut", "cake",
      "chair", "couch", "potted plant", "bed", "dining table", "toilet", "tv", "laptop",
      "mouse", "remote", "keyboard", "cell phone", "microwave", "oven", "toaster", "sink",
      "refrigerator", "book", "clock", "vase", "scissors", "teddy bear", "hair drier",
      "toothbrush" }

\* yolo11APIDetector.canSegment: the instance is built with useCustomModel = false
canSegment(objectName) == ToLowerCase(objectName) \in supportedClasses

\* yolo11APIDetector.mapToYOLOClass; "null" stands for null
mapToYOLOClass(objectName) ==
    LET name == ToLowerCase(objectName)
    IN IF name \in supportedClasses THEN name
       ELSE CASE name = "sofa" -> "couch"
              [] name = "table" -> "dining table"
              [] name = "television" -> "tv"
              [] name = "plant" -> "potted plant"
              [] name = "lamp" -> "tv"
              [] name = "lighting" -> "tv"
              [] name = "picture frame" -> "book"
              [] name = "cabinetry" -> "refrigerator"
              [] OTHER -> "null"

\* yoloObjects.filter(obj => obj.confidence >= CONFIDENCE_THRESHOLD)
highConfidenceYolo(yolo) ==
    SelectSeq(yolo, LAMBDA obj : obj.confidence >= ConfidenceThresholdPct)

\* { ...obj, source: 'YOLO11', canSegment: true }
TagYolo(obj) ==
    [name |-> obj.name, confidence |-> obj.confidence, x |-> obj.x, y |-> obj.y,
     width |-> obj.width, height |-> obj.height, polygon |-> obj.polygon,
     source |-> "YOLO11", canSegment |-> TRUE]

\* Variant of the overlap test that lets the more confident detection win.
hasOverlapWithYoloByConfidence(googleObj, yolo) ==
    \E i \in 1..Len(yolo) :
        /\ yolo[i].confidence >= googleObj.confidence
        /\ \/ objectsOverlap(googleObj, yolo[i], SpatialOverlapTenths)
           \/ /\ ToLowerCase(googleObj.name) = ToLowerCase(yolo[i].name)
              /\ objectsOverlap(googleObj, yolo[i], SameNameOverlapTenths)

\* yoloObjects.some(...): the test runs over all of yoloObjects
hasOverlapWithYolo(googleObj, yolo) ==
    \E i \in 1..Len(yolo) :
        \/ objectsOverlap(googleObj, yolo[i], SpatialOverlapTenths)
        \/ /\ ToLowerCase(googleObj.name) = ToLowerCase(yolo[i].name)
           /\ objectsOverlap(googleObj, yolo[i], SameNameOverlapTenths)

\* { ...googleObj, confidence: googleObj.confidence || 0.6, source, canSegment,
\*   yoloEquivalent, segmentationNote }: a confidence of 0 is falsy
TagGoogle(googleObj) ==
    [name |-> googleObj.name,
     confidence |-> IF googleObj.confidence = 0 THEN DefaultGoogleConfidencePct
                    ELSE googleObj.confidence,
     x |-> googleObj.x, y |-> googleObj.y,
     width |-> googleObj.width, height |-> googleObj.height,
     polygon |-> googleObj.polygon,
     source |-> "Google Vision",
     canSegment |-> canSegment(googleObj.name),
     yoloEquivalent |-> mapToYOLOClass(googleObj.name),
     segmentationNote |-> IF canSegment(googleObj.name)
                          THEN <<"Can be re-detected with YOLO as",
                                 mapToYOLOClass(googleObj.name), "for segmentation">>
                          ELSE <<"No YOLO equivalent - bounding box only">>]

\* the hybridObjects of step 3
FuseDetections(yolo, google) ==
    LET accepted == highConfidenceYolo(yolo)
        kept == SelectSeq(google, LAMBDA g : ~hasOverlapWithYolo(g, yolo))
    IN [i \in 1..Len(accepted) |-> TagYolo(accepted[i])]
       \o [i \in 1..Len(kept) |-> TagGoogle(kept[i])]

(***************************************************************************)
(* Inputs of the intention resolver: drawing paths as handleMouseUp sends  *)
(* them (more than 3 points) or as analyzeFullImage sends them (empty),    *)
(* and candidate boxes on a 12 x 12 canvas.  The paths are rectilinear:    *)
(* on axis-parallel edges the ray-casting comparisons of the code are      *)
(* exact in floating point, so the integer cross-multiplication above      *)
(* decides every sample point as the code does.                            *)
(***************************************************************************)
Pt(a, b) == [x |-> a, y |-> b]

Det(n, c, a, b, w, h) ==
    [name |-> n, confidence |-> c, x |-> a, y |-> b, width |-> w, height |-> h]

EmptyPath == <<>>
SquarePath == <<Pt(2, 2), Pt(10, 2), Pt(10, 10), Pt(2, 10)>>
SmallPath == <<Pt(1, 1), Pt(4, 1), Pt(4, 4), Pt(1, 4)>>
EllPath == <<Pt(0, 0), Pt(12, 0), Pt(12, 6), Pt(6, 6), Pt(6, 12), Pt(0, 12)>>

PathPool == {EmptyPath, SquarePath, SmallPath, EllPath}

\* A chair at (100, 100) of 50 x 80 and paths drawn tightly around it: on
\* the box itself, on the box with more points and the other way round,
\* closed by repeating the first point, and two pixels outside the box.
ChairCandidate == Det("chair", 90, 100, 100, 50, 80)
TightPathOnBox == <<Pt(100, 100), Pt(150, 100), Pt(150, 180), Pt(100, 180)>>
TightPathDense ==
    <<Pt(125, 100), Pt(100, 100), Pt(100, 140), Pt(100, 180),
      Pt(125, 180), Pt(150, 180), Pt(150, 140), Pt(150, 100)>>
TightPathClosed == TightPathOnBox \o <<Pt(100, 100)>>
TightPathMargin == <<Pt(98, 98), Pt(152, 98), Pt(152, 182), Pt(98, 182)>>
TightPathPool == {TightPathOnBox, TightPathDense, TightPathClosed, TightPathMargin}

\* arguments of the resolver with fewer than 3 points: a single point and a
\* stroke of two points (handleMouseUp itself submits longer paths only)
PointPath == <<Pt(5, 5)>>
StrokePath == <<Pt(10, 10), Pt(2, 2)>>
ShortPathPool == {PointPath, StrokePath}

CandidatePool ==
    { Det("chair", 90, 3, 3, 6, 6), Det("table", 80, 2, 2, 8, 8),
      Det("lamp", 70, 4, 4, 5, 5),  Det("vase", 60, 8, 2, 4, 4),
      Det("sofa", 50, 9, 9, 3, 3),  Det("tv", 30, 6, 6, 6, 6) }

\* the sequences of at most n distinct members of pool
DistinctSeqs(pool, n) ==
    {s \in UNION {[1..k -> pool] : k \in 0..n} :
        \A i, j \in 1..Len(s) : i # j => s[i] # s[j]}

(***************************************************************************)
(* One call of analyzeUserIntention on chosen arguments.                   *)
(***************************************************************************)
(***************************************************************************)
(* Inputs of a recognition run: what the two detectors may answer.  Boxes  *)
(* lie on the same 12 x 12 grid as the paths.                              *)
(***************************************************************************)
RectPoly(a, b, w, h) == <<a, b, a + w, b, a + w, b + h, a, b + h>>

YoloPool ==
    { DetP("table", 50, 0, 0, 8, 10, RectPoly(0, 0, 8, 10)),
      DetP("chair", 35, 9, 0, 3, 3, RectPoly(9, 0, 3, 3)),
      DetP("vase", 30, 0, 10, 4, 2, RectPoly(0, 10, 4, 2)) }

GooglePool ==
    { DetP("table", 90, 2, 0, 8, 10, <<>>),
      DetP("table", 99, 2, 0, 8, 10, <<>>),
      DetP("lamp", 0, 9, 9, 3, 3, RectPoly(9, 9, 3, 3)),
      DetP("lamp", 70, 0, 10, 4, 2, <<>>),
      DetP("Chair", 80, 9, 2, 3, 3, <<>>),
      DetP("sofa", 80, 9, 2, 3, 4, <<>>) }

RecPathPool == {EmptyPath, SquarePath}

UpToSeqs(pool, n) == UNION { DistinctSeqs(pool, k) : k \in 0..n }

RecOff ==
    /\ useAdvancedDetection = TRUE
    /\ rPc = "off"
    /\ rPath = <<>>
    /\ yoloObjects = <<>>
    /\ googleObjects = <<>>
    /\ yoloFailed = FALSE
    /\ googleFailed = FALSE
    /\ hybridObjects = <<>>
    /\ mutationStatus = "idle"
    /\ detectedObjects = <<>>
    /\ toastTitle = ""

(***************************************************************************)
(* Values of the removal and replacement workflows.                        *)
(***************************************************************************)
Dims(w, h) == [width |-> w, height |-> h]
NoDims == Dims(0, 0)

\* a segmentationMask: flat x, y list; frame is the size of the image whose
\* pixels the coordinates index (not stored by the program)
Mask(coords, frame) == [coords |-> coords, frame |-> frame]
NoMask == Mask(<<>>, NoDims)

\* what a workflow hands to its caller: outcome "success" and "failure" are
\* returned objects ({ success: true | false, ... }), "thrown" is a rejection
Result(outcome, error, finalImage, cleanedImage, croppedObject) ==
    [outcome |-> outcome, error |-> error, finalImage |-> finalImage,
     cleanedImage |-> cleanedImage, croppedObject |-> croppedObject]
NoResult == Result("none", <<>>, NoDims, FALSE, FALSE)

WorkflowOff ==
    /\ wKind = "none"
    /\ wPc = "off"
    /\ wImage = NoDims
    /\ wMask = NoMask
    /\ wGenerated = NoDims
    /\ wClean = FALSE
    /\ wCropped = FALSE
    /\ wObject = "none"
    /\ wApplied = <<>>
    /\ wProgress = <<>>
    /\ wFailed = {}
    /\ wUpstream = {}
    /\ wResult = NoResult

Rect(a, b, w, h) == [x |-> a, y |-> b, width |-> w, height |-> h]

NoApplication == [sent |-> <<>>, resolved |-> <<>>, stale |-> FALSE, applied |-> FALSE]

PointerOff ==
    /\ pPc = "off"
    /\ isDrawing = FALSE
    /\ currentPath = <<>>
    /\ imageLoads = {}
    /\ inFlight = {}
    /\ currentMutation = 0
    /\ mutationVariables = <<>>
    /\ shownObjects = <<>>
    /\ requestCount = 0
    /\ lastApplied = NoApplication

\* req.body of a POST: "" stands for a missing field
Body(path, imageUrl, prompt) == [path |-> path, imageUrl |-> imageUrl, prompt |-> prompt]
NoRequest == Body("", "", "")

ServerOff ==
    /\ ePc = "off"
    /\ eRequest = NoRequest
    /\ eHandler = "none"
    /\ eTried = <<>>
    /\ eSent = 0
    /\ eCount = 0
    /\ eResponses = <<>>

ReplacerOff ==
    /\ gPc = "off"
    /\ gPath = <<>>
    /\ gDetected = <<>>
    /\ selectedObjectForModification = <<>>
    /\ selectedObjectForGrokReplacement = <<>>
    /\ replacementPrompt = ""
    /\ isProcessing = FALSE
    /\ processedImageUrl = "original"
    /\ gPicked = <<>>
    /\ gStarted = <<>>

ScaleOff ==
    /\ sPc = "off"
    /\ sCoords = <<>>
    /\ sFrom = NoDims
    /\ sTo = NoDims
    /\ sScaled = <<>>
    /\ sBack = <<>>

MaskOff ==
    /\ mOp = "none"
    /\ mPc = "off"
    /\ mImage = NoDims
    /\ mInput = <<>>
    /\ mRect = Rect(0, 0, 0, 0)
    /\ mWhite = 0
    /\ mOutcome = "none"

IntentOff ==
    /\ iPc = "off"
    /\ iPath = <<>>
    /\ iObjects = <<>>
    /\ iScored = <<>>
    /\ iResult = <<>>
    /\ iPrev = <<>>

InitIntent ==
    /\ RecOff
    /\ WorkflowOff
    /\ MaskOff
    /\ ScaleOff
    /\ PointerOff
    /\ ReplacerOff
    /\ ServerOff
    /\ iPc = "ready"
    /\ \/ /\ iPath \in PathPool
          /\ iObjects \in DistinctSeqs(CandidatePool, MaxCands)
       \/ /\ iPath \in TightPathPool
          /\ iObjects = <<ChairCandidate>>
       \/ /\ iPath \in ShortPathPool
          /\ iObjects \in DistinctSeqs(CandidatePool, MaxShortCands)
    /\ iScored = <<>>
    /\ iResult = <<>>
    /\ iPrev = <<>>

Analyze ==
    /\ iPc = "ready"
    /\ iPc' = "done"
    /\ iScored' = IF Len(iPath) = 0 THEN <<>> ELSE ScoredObjects(iPath, iObjects)
    /\ iResult' = ResolveIntention(iPath, iObjects, iScored')
    /\ UNCHANGED <<iPath, iObjects, iPrev>>

\* a second call of analyzeUserIntention with the same two arguments, made
\* while the component holds the outcome of the first
AnalyzeAgain ==
    /\ iPc = "done"
    /\ iPc' = "again"
    /\ iPrev' = iResult
    /\ iScored' = IF Len(iPath) = 0 THEN <<>> ELSE ScoredObjects(iPath, iObjects)
    /\ iResult' = ResolveIntention(iPath, iObjects, iScored')
    /\ UNCHANGED <<iPath, iObjects>>

NextIntent ==
    (Analyze \/ AnalyzeAgain)
    /\ UNCHANGED <<recVars, wfVars, maskVars, scaleVars, pointerVars, replVars, editVars>>

SpecIntent == InitIntent /\ [][NextIntent]_vars

(***************************************************************************)
(* A recognition run of PenSelector: mutate, the two detector calls one    *)
(* after the other, step 3, then the mutation's callback.                  *)
(***************************************************************************)
InitRecognition ==
    /\ IntentOff
    /\ WorkflowOff
    /\ MaskOff
    /\ ScaleOff
    /\ PointerOff
    /\ ReplacerOff
    /\ ServerOff
    /\ useAdvancedDetection = TRUE
    /\ rPc = "idle"
    /\ rPath = <<>>
    /\ yoloObjects = <<>>
    /\ googleObjects = <<>>
    /\ yoloFailed = FALSE
    /\ googleFailed = FALSE
    /\ hybridObjects = <<>>
    /\ mutationStatus = "idle"
    /\ detectedObjects = <<>>
    /\ toastTitle = ""

\* yolo11RealDetector.loadModel() rejected
LoadModelFailed ==
    /\ rPc = "idle"
    /\ useAdvancedDetection
    /\ useAdvancedDetection' = FALSE
    /\ UNCHANGED <<rPc, rPath, yoloObjects, googleObjects, yoloFailed, googleFailed,
                   hybridObjects, mutationStatus, detectedObjects, toastTitle>>

\* recognitionMutation.mutate from handleMouseUp (a drawn path) or from
\* analyzeFullImage (the empty path); mutationFn starts with empty lists
Mutate(path) ==
    /\ rPc = "idle"
    /\ rPath' = path
    /\ yoloObjects' = <<>>
    /\ googleObjects' = <<>>
    /\ mutationStatus' = "pending"
    /\ rPc' = IF useAdvancedDetection THEN "yolo" ELSE "google"
    /\ UNCHANGED <<useAdvancedDetection, yoloFailed, googleFailed, hybridObjects,
                   detectedObjects, toastTitle>>

\* step 1, try block: yoloObjects = yoloResult.objects || []
YoloReturn(objects) ==
    /\ rPc = "yolo"
    /\ yoloObjects' = objects
    /\ rPc' = "google"
    /\ UNCHANGED <<useAdvancedDetection, rPath, googleObjects, yoloFailed, googleFailed,
                   hybridObjects, mutationStatus, detectedObjects, toastTitle>>

\* step 1, catch block: the error is logged and dropped
YoloFail ==
    /\ rPc = "yolo"
    /\ yoloFailed' = TRUE
    /\ rPc' = "google"
    /\ UNCHANGED <<useAdvancedDetection, rPath, yoloObjects, googleObjects, googleFailed,
                   hybridObjects, mutationStatus, detectedObjects, toastTitle>>

\* step 2, try block: googleObjects = googleResult.objects || []
GoogleReturn(objects) ==
    /\ rPc = "google"
    /\ googleObjects' = objects
    /\ rPc' = "fuse"
    /\ UNCHANGED <<useAdvancedDetection, rPath, yoloObjects, yoloFailed, googleFailed,
                   hybridObjects, mutationStatus, detectedObjects, toastTitle>>

\* step 2, catch block: the error is logged and dropped
GoogleFail ==
    /\ rPc = "google"
    /\ googleFailed' = TRUE
    /\ rPc' = "fuse"
    /\ UNCHANGED <<useAdvancedDetection, rPath, yoloObjects, googleObjects, yoloFailed,
                   hybridObjects, mutationStatus, detectedObjects, toastTitle>>

\* Variant of step 3 that does not wait for the Google Vision call.
FuseEarly ==
    /\ rPc \in {"google", "fuse"}
    /\ hybridObjects' = FuseDetections(yoloObjects, googleObjects)
    /\ mutationStatus' = "success"
    /\ rPc' = "resolved"
    /\ UNCHANGED <<useAdvancedDetection, rPath, yoloObjects, googleObjects, yoloFailed,
                   googleFailed, detectedObjects, toastTitle>>

\* step 3 and the return of mutationFn: { success: true, objects: hybridObjects }
Fuse ==
    /\ rPc = "fuse"
    /\ hybridObjects' = FuseDetections(yoloObjects, googleObjects)
    /\ mutationStatus' = "success"
    /\ rPc' = "resolved"
    /\ UNCHANGED <<useAdvancedDetection, rPath, yoloObjects, googleObjects, yoloFailed,
                   googleFailed, detectedObjects, toastTitle>>

\* onSuccess
OnSuccess ==
    /\ rPc = "resolved"
    /\ mutationStatus = "success"
    /\ LET filteredObjects == analyzeUserIntention(rPath, hybridObjects)
       IN /\ detectedObjects' = filteredObjects
          /\ toastTitle' = IF Len(filteredObjects) > 0
                           THEN IF Len(rPath) > 0 THEN "Smart selection complete!"
                                ELSE "Objects detected and refined!"
                           ELSE "No objects found"
    /\ rPc' = "settled"
    /\ UNCHANGED <<useAdvancedDetection, rPath, yoloObjects, googleObjects, yoloFailed,
                   googleFailed, hybridObjects, mutationStatus>>

\* onError: runs only when mutationFn rejects
OnError ==
    /\ rPc = "resolved"
    /\ mutationStatus = "error"
    /\ toastTitle' = "Recognition failed"
    /\ rPc' = "settled"
    /\ UNCHANGED <<useAdvancedDetection, rPath, yoloObjects, googleObjects, yoloFailed,
                   googleFailed, hybridObjects, mutationStatus, detectedObjects>>

NextRecognition ==
    /\ \/ LoadModelFailed
       \/ \E path \in RecPathPool : Mutate(path)
       \/ \E objects \in UpToSeqs(YoloPool, MaxDet) : YoloReturn(objects)
       \/ YoloFail
       \/ \E objects \in UpToSeqs(GooglePool, MaxDet) : GoogleReturn(objects)
       \/ GoogleFail
       \/ Fuse
       \/ OnSuccess
    /\ UNCHANGED <<intentVars, wfVars, maskVars, scaleVars, pointerVars, replVars, editVars>>

SpecRecognition == InitRecognition /\ [][NextRecognition]_vars

(***************************************************************************)
(* The removal and replacement workflows.  Each await of an external call  *)
(* (image fetch, generator, sharp, segmentation service) is a step whose    *)
(* outcome the environment chooses.                                        *)
(***************************************************************************)
GeneratedSize == 1024

ImagePool == {Dims(800, 600), Dims(1024, 1024)}

\* polygons as the detectors report them, in the pixels of the image they were
\* detected on; the coordinates scale to whole numbers
MaskPool ==
    { Mask(<<200, 150, 600, 150, 600, 450, 200, 450>>, Dims(800, 600)),
      Mask(<<0, 0, 400, 0, 0, 300>>, Dims(800, 600)),
      Mask(<<256, 256, 768, 256, 768, 768, 256, 768>>, Dims(1024, 1024)) }

\* error.message of a failed external call
UpstreamErrors == {"timeout", "quota exceeded"}

\* what generateReplacement reports: its route on this server cannot succeed
\* (status 500), or the request itself fails
GenerateReplacementErrors == {"Generation request failed: 500"} \cup UpstreamErrors

\* scaledSegmentationMask: x by 1024 / originalWidth, y by 1024 / originalHeight
ScaleMask(mask, originalWidth, originalHeight) ==
    Mask([i \in 1..Len(mask.coords) |->
             IF i % 2 = 1 THEN (mask.coords[i] * GeneratedSize) \div originalWidth
             ELSE (mask.coords[i] * GeneratedSize) \div originalHeight],
         Dims((mask.frame.width * GeneratedSize) \div originalWidth,
              (mask.frame.height * GeneratedSize) \div originalHeight))

\* one application of a mask to an image: the raster is what sharp renders
\* from the SVG, the frame is the size the coordinates were meant for
Applied(step, image, raster, frame) ==
    [step |-> step, image |-> image, raster |-> raster, frame |-> frame]

\* extractObjectFromGenerated: the SVG is built and resized to the size of
\* the image it is given, whatever the coordinates are
ExtractApplication(generated, mask) ==
    Applied("extractObjectFromGenerated", generated, generated, mask.frame)

\* step 4 of replaceObjectWithSceneDiff: the mask on the resized generated
\* scene, the inverted mask on the original image
PlacementApplications(image, mask) ==
    << Applied("maskedGeneratedObject", image, image, mask.frame),
       Applied("originalWithoutObject", image, image, mask.frame) >>

\* removeObjectWithPreciseSegmentation: pngMask, invertedMask, pngMask again
RemovalApplications(image, mask) ==
    << Applied("areaToRemove", image, image, mask.frame),
       Applied("backgroundOnly", image, image, mask.frame),
       Applied("filledArea", image, image, mask.frame) >>

InitWorkflow ==
    /\ IntentOff
    /\ RecOff
    /\ MaskOff
    /\ ScaleOff
    /\ PointerOff
    /\ ReplacerOff
    /\ ServerOff
    /\ wKind = "none"
    /\ wPc = "idle"
    /\ wImage = NoDims
    /\ wMask = NoMask
    /\ wGenerated = NoDims
    /\ wClean = FALSE
    /\ wCropped = FALSE
    /\ wObject = "none"
    /\ wApplied = <<>>
    /\ wProgress = <<>>
    /\ wFailed = {}
    /\ wUpstream = {}
    /\ wResult = NoResult

\* a call of one of the workflows
Start(kind, pc, image, mask) ==
    /\ wPc = "idle"
    /\ wKind' = kind
    /\ wPc' = pc
    /\ wImage' = image
    /\ wMask' = mask
    /\ UNCHANGED <<wGenerated, wClean, wCropped, wObject, wApplied, wProgress,
                   wFailed, wUpstream, wResult>>

\* the workflow hands its result to the caller
Finish(kind, pc, failedAt, message, result) ==
    /\ wKind = kind
    /\ wPc = pc
    /\ wPc' = "done"
    /\ wFailed' = wFailed \cup {failedAt}
    /\ wUpstream' = wUpstream \cup {message}
    /\ wResult' = result
    /\ UNCHANGED <<wKind, wImage, wMask, wGenerated, wClean, wCropped, wObject,
                   wApplied, wProgress>>

(* replaceObjectWithSceneDiff *)
SceneDiffStart(image, mask) == Start("sceneDiff", "fetch", image, mask)

\* step 1
SceneDiffFetched ==
    /\ wKind = "sceneDiff" /\ wPc = "fetch"
    /\ wPc' = "generate"
    /\ UNCHANGED <<wKind, wImage, wMask, wGenerated, wClean, wCropped, wObject,
                   wApplied, wProgress, wFailed, wUpstream, wResult>>

SceneDiffFetchFailed(message) ==
    Finish("sceneDiff", "fetch", "fetch", message,
           Result("failure", <<message>>, NoDims, FALSE, FALSE))

\* step 2: generateSceneReplacement answered with an image
SceneGenerated ==
    /\ wKind = "sceneDiff" /\ wPc = "generate"
    /\ wGenerated' = Dims(GeneratedSize, GeneratedSize)
    /\ wPc' = "extract"
    /\ UNCHANGED <<wKind, wImage, wMask, wClean, wCropped, wObject, wApplied,
                   wProgress, wFailed, wUpstream, wResult>>

\* step 2: throw new Error(`Scene generation failed: ...`), caught at the end
SceneGenerationFailed(message) ==
    Finish("sceneDiff", "generate", "generate", message,
           Result("failure", <<"Scene generation failed: ", message>>, NoDims, FALSE, FALSE))

\* step 3: the scaled mask is applied to the generated scene
SceneExtracted ==
    /\ wKind = "sceneDiff" /\ wPc = "extract"
    /\ wApplied' = Append(wApplied,
           ExtractApplication(wGenerated, ScaleMask(wMask, wImage.width, wImage.height)))
    /\ wObject' = "extracted"
    /\ wPc' = "composite"
    /\ UNCHANGED <<wKind, wImage, wMask, wGenerated, wClean, wCropped, wProgress,
                   wFailed, wUpstream, wResult>>

\* step 3: throw new Error(`Object extraction failed: ...`), caught at the end
SceneExtractionFailed(message) ==
    Finish("sceneDiff", "extract", "extract", message,
           Result("failure", <<"Object extraction failed: ", message>>, NoDims, FALSE, FALSE))

\* step 4 and the successful return
SceneComposited ==
    /\ wKind = "sceneDiff" /\ wPc = "composite"
    /\ wApplied' = wApplied \o PlacementApplications(wImage, wMask)
    /\ wPc' = "done"
    /\ wResult' = Result("success", <<>>, wImage, FALSE, FALSE)
    /\ UNCHANGED <<wKind, wImage, wMask, wGenerated, wClean, wCropped, wObject,
                   wProgress, wFailed, wUpstream>>

SceneCompositeFailed(message) ==
    Finish("sceneDiff", "composite", "composite", message,
           Result("failure", <<message>>, NoDims, FALSE, FALSE))

(* extractObjectFromGenerated called on its own *)
ExtractCall(image, mask) == Start("extract", "extract", image, mask)

ExtractReturned ==
    /\ wKind = "extract" /\ wPc = "extract"
    /\ wApplied' = Append(wApplied, ExtractApplication(wImage, wMask))
    /\ wObject' = "extracted"
    /\ wPc' = "done"
    /\ wResult' = Result("success", <<>>, NoDims, FALSE, FALSE)
    /\ UNCHANGED <<wKind, wImage, wMask, wGenerated, wClean, wCropped, wProgress,
                   wFailed, wUpstream>>

ExtractFailed(message) ==
    Finish("extract", "extract", "extract", message,
           Result("failure", <<message>>, NoDims, FALSE, FALSE))

(* replaceObjectTwoStep *)
TwoStepStart(image) == Start("twoStep", "remove", image, NoMask)

\* step 1: removeObjectWithInpainting returned a cleaned image
TwoStepRemoved ==
    /\ wKind = "twoStep" /\ wPc = "remove"
    /\ wClean' = TRUE
    /\ wPc' = "generate"
    /\ UNCHANGED <<wKind, wImage, wMask, wGenerated, wCropped, wObject, wApplied,
                   wProgress, wFailed, wUpstream, wResult>>

\* step 1 threw; the catch block rethrows
TwoStepRemovalFailed(message) ==
    Finish("twoStep", "remove", "remove", message,
           Result("thrown", <<"Object replacement failed: ", "Object removal failed: ", message>>,
                  NoDims, FALSE, FALSE))

\* step 2: generateAndPlaceObject returned the generated image as the composite
TwoStepGenerated ==
    /\ wKind = "twoStep" /\ wPc = "generate"
    /\ wGenerated' = Dims(GeneratedSize, GeneratedSize)
    /\ wPc' = "done"
    /\ wResult' = Result("success", <<>>, Dims(GeneratedSize, GeneratedSize), TRUE, FALSE)
    /\ UNCHANGED <<wKind, wImage, wMask, wClean, wCropped, wObject, wApplied,
                   wProgress, wFailed, wUpstream>>

\* step 2 threw; the catch block rethrows and nothing is returned
TwoStepGenerationFailed(message) ==
    Finish("twoStep", "generate", "generate", message,
           Result("thrown", <<"Object replacement failed: ", "Object generation failed: ", message>>,
                  NoDims, FALSE, FALSE))

(* GrokReplacementService.replaceObjectStepByStep *)
StepByStepStart(image, mask) ==
    /\ wPc = "idle"
    /\ wKind' = "stepByStep"
    /\ wPc' = "crop"
    /\ wImage' = image
    /\ wMask' = mask
    /\ wProgress' = Append(wProgress, "cropping")
    /\ UNCHANGED <<wGenerated, wClean, wCropped, wObject, wApplied, wFailed, wUpstream, wResult>>

\* step 1 succeeded; step 2 is requested
StepCropped ==
    /\ wKind = "stepByStep" /\ wPc = "crop"
    /\ wCropped' = TRUE
    /\ wProgress' = wProgress \o <<"cropped", "generating">>
    /\ wPc' = "generate"
    /\ UNCHANGED <<wKind, wImage, wMask, wGenerated, wClean, wObject, wApplied,
                   wFailed, wUpstream, wResult>>

\* a variant that announces 'cropped' before it looks at the crop result
StepCropFailedAnnounced(message) ==
    /\ wKind = "stepByStep" /\ wPc = "crop"
    /\ wPc' = "done"
    /\ wFailed' = wFailed \cup {"crop"}
    /\ wUpstream' = wUpstream \cup {message}
    /\ wProgress' = Append(wProgress, "cropped")
    /\ wResult' = Result("failure", <<"Cropping failed: ", message>>, NoDims, FALSE, FALSE)
    /\ UNCHANGED <<wKind, wImage, wMask, wGenerated, wClean, wCropped, wObject, wApplied>>

\* step 1: cropObject answered success: false; nothing more is announced
StepCropFailed(message) ==
    Finish("stepByStep", "crop", "crop", message,
           Result("failure", <<"Cropping failed: ", message>>, NoDims, FALSE, FALSE))

\* step 2: generateReplacement answered success: false; the cropped object
\* is what the failure result carries
StepGenerationFailed(message) ==
    Finish("stepByStep", "generate", "generate", message,
           Result("failure", <<"Generation failed: ", message>>, NoDims, FALSE, TRUE))

\* step 2: generateReplacement answered success: true with an image.  The
\* answer comes over HTTP from whatever serves /api/grok/generate-replacement
\* (the routes of this repository answer it with a failure); the returned
\* object carries croppedObject and generatedReplacement and no
\* finalImageBase64
StepGenerated ==
    /\ wKind = "stepByStep" /\ wPc = "generate"
    /\ wGenerated' = Dims(GeneratedSize, GeneratedSize)
    /\ wProgress' = wProgress \o <<"generated", "placing">>
    /\ wPc' = "done"
    /\ wResult' = Result("success", <<>>, NoDims, FALSE, TRUE)
    /\ UNCHANGED <<wKind, wImage, wMask, wClean, wCropped, wObject, wApplied,
                   wFailed, wUpstream>>

(* placeGeneratedObjectWithMask; no caller in the repository *)
PlaceStart(image, mask) == Start("placeWithMask", "remove", image, mask)

\* step 1: removeObjectWithPreciseSegmentation
PlaceRemoved ==
    /\ wKind = "placeWithMask" /\ wPc = "remove"
    /\ wApplied' = wApplied \o RemovalApplications(wImage, wMask)
    /\ wClean' = TRUE
    /\ wPc' = "segment"
    /\ UNCHANGED <<wKind, wImage, wMask, wGenerated, wCropped, wObject, wProgress,
                   wFailed, wUpstream, wResult>>

PlaceRemovalFailed(message) ==
    Finish("placeWithMask", "remove", "remove", message,
           Result("failure", <<"Failed to remove old object: ", message>>, NoDims, FALSE, FALSE))

\* step 2: segmentGeneratedObject succeeded
PlaceSegmented ==
    /\ wKind = "placeWithMask" /\ wPc = "segment"
    /\ wObject' = "segmented"
    /\ wPc' = "place"
    /\ UNCHANGED <<wKind, wImage, wMask, wGenerated, wClean, wCropped, wApplied,
                   wProgress, wFailed, wUpstream, wResult>>

\* step 2: segmentGeneratedObject answered success: false; the full generated
\* image is placed
PlaceSegmentationFailed(message) ==
    /\ wKind = "placeWithMask" /\ wPc = "segment"
    /\ wObject' = "full"
    /\ wFailed' = wFailed \cup {"segment"}
    /\ wUpstream' = wUpstream \cup {message}
    /\ wPc' = "place"
    /\ UNCHANGED <<wKind, wImage, wMask, wGenerated, wClean, wCropped, wApplied,
                   wProgress, wResult>>

\* step 3 and the successful return
Placed ==
    /\ wKind = "placeWithMask" /\ wPc = "place"
    /\ wPc' = "done"
    /\ wResult' = Result("success", <<>>, wImage, FALSE, FALSE)
    /\ UNCHANGED <<wKind, wImage, wMask, wGenerated, wClean, wCropped, wObject,
                   wApplied, wProgress, wFailed, wUpstream>>

PlaceFailed(message) ==
    Finish("placeWithMask", "place", "place", message,
           Result("failure", <<message>>, NoDims, FALSE, FALSE))

(* InpaintingService.removeObject *)
RemoveObjectStart(image) == Start("removeObject", "lama", image, NoMask)

\* the LaMa service answered: { success: true, cleanedImageUrl, method: 'LaMa' }
LamaInpainted ==
    /\ wKind = "removeObject" /\ wPc = "lama"
    /\ wClean' = TRUE
    /\ wPc' = "done"
    /\ wResult' = Result("success", <<>>, NoDims, TRUE, FALSE)
    /\ UNCHANGED <<wKind, wImage, wMask, wGenerated, wCropped, wObject, wApplied,
                   wProgress, wFailed, wUpstream>>

\* anything in the try block threw (mask, image fetch, LaMa request): the
\* error is logged and fallbackRemoval is awaited
LamaFailed(message) ==
    /\ wKind = "removeObject" /\ wPc = "lama"
    /\ wFailed' = wFailed \cup {"lama"}
    /\ wUpstream' = wUpstream \cup {message}
    /\ wPc' = "fallback"
    /\ UNCHANGED <<wKind, wImage, wMask, wGenerated, wClean, wCropped, wObject,
                   wApplied, wProgress, wResult>>

\* fallbackRemoval: the OpenAI edit answered
FallbackInpainted ==
    /\ wKind = "removeObject" /\ wPc = "fallback"
    /\ wClean' = TRUE
    /\ wPc' = "done"
    /\ wResult' = Result("success", <<>>, NoDims, TRUE, FALSE)
    /\ UNCHANGED <<wKind, wImage, wMask, wGenerated, wCropped, wObject, wApplied,
                   wProgress, wFailed, wUpstream>>

\* fallbackRemoval, catch block: throw new Error('Object removal failed')
FallbackFailed(message) ==
    Finish("removeObject", "fallback", "inpaint", message,
           Result("thrown", <<"Object removal failed">>, NoDims, FALSE, FALSE))

MasksOf(image) == {mask \in MaskPool : mask.frame = image}

NextWorkflow ==
    /\ \/ \E image \in ImagePool : \E mask \in MasksOf(image) : SceneDiffStart(image, mask)
       \/ SceneDiffFetched
       \/ \E message \in UpstreamErrors : SceneDiffFetchFailed(message)
       \/ SceneGenerated
       \/ \E message \in UpstreamErrors : SceneGenerationFailed(message)
       \/ SceneExtracted
       \/ \E message \in UpstreamErrors : SceneExtractionFailed(message)
       \/ SceneComposited
       \/ \E message \in UpstreamErrors : SceneCompositeFailed(message)
       \/ \E image \in ImagePool : \E mask \in MaskPool : ExtractCall(image, mask)
       \/ ExtractReturned
       \/ \E message \in UpstreamErrors : ExtractFailed(message)
       \/ \E image \in ImagePool : TwoStepStart(image)
       \/ TwoStepRemoved
       \/ \E message \in UpstreamErrors : TwoStepRemovalFailed(message)
       \/ TwoStepGenerated
       \/ \E message \in UpstreamErrors : TwoStepGenerationFailed(message)
       \/ \E image \in ImagePool : RemoveObjectStart(image)
       \/ LamaInpainted
       \/ \E message \in UpstreamErrors : LamaFailed(message)
       \/ FallbackInpainted
       \/ \E message \in UpstreamErrors : FallbackFailed(message)
       \/ \E image \in ImagePool : \E mask \in MasksOf(image) : StepByStepStart(image, mask)
       \/ StepCropped
       \/ \E message \in UpstreamErrors : StepCropFailed(message)
       \/ \E message \in GenerateReplacementErrors : StepGenerationFailed(message)
       \/ StepGenerated
       \/ \E image \in ImagePool : \E mask \in MasksOf(image) : PlaceStart(image, mask)
       \/ PlaceRemoved
       \/ \E message \in UpstreamErrors : PlaceRemovalFailed(message)
       \/ PlaceSegmented
       \/ \E message \in UpstreamErrors : PlaceSegmentationFailed(message)
       \/ Placed
       \/ \E message \in UpstreamErrors : PlaceFailed(message)
    /\ UNCHANGED <<intentVars, recVars, maskVars, scaleVars, pointerVars, replVars, editVars>>

SpecWorkflow == InitWorkflow /\ [][NextWorkflow]_vars

(***************************************************************************)
(* Crop and mask rectangles.  Input coordinates are in half pixels, so     *)
(* that Math.floor and Math.ceil have something to round; image sizes and  *)
(* the computed rectangles are in pixels.                                  *)
(***************************************************************************)
HalfUnit == 2
MaskPadding == 10

Floor(halves) == halves \div HalfUnit
Ceil(halves) == -((-halves) \div HalfUnit)

OddEntries(s) == [i \in 1..(Len(s) \div 2) |-> s[2 * i - 1]]
EvenEntries(s) == [i \in 1..(Len(s) \div 2) |-> s[2 * i]]

\* cropObjectFromImage: minX, minY, cropWidth, cropHeight
CropRect(image, points) ==
    LET xCoords == OddEntries(points)
        yCoords == EvenEntries(points)
        minX == Max2(0, Floor(SeqMin(xCoords)))
        maxX == Min2(image.width, Ceil(SeqMax(xCoords)))
        minY == Max2(0, Floor(SeqMin(yCoords)))
        maxY == Min2(image.height, Ceil(SeqMax(yCoords)))
    IN Rect(minX, minY, maxX - minX, maxY - minY)

\* sharp's extract takes a positive width and height and throws otherwise
ExtractAccepts(rect) == rect.width > 0 /\ rect.height > 0

\* createSimpleMask: maskX, maskY, maskWidth, maskHeight
SimpleMaskRect(image, bounds) ==
    LET maskX == Max2(0, Floor(bounds.x - MaskPadding * HalfUnit))
        maskY == Max2(0, Floor(bounds.y - MaskPadding * HalfUnit))
        maskWidth == Min2(image.width - maskX, Floor(bounds.width + MaskPadding * 2 * HalfUnit))
        maskHeight == Min2(image.height - maskY, Floor(bounds.height + MaskPadding * 2 * HalfUnit))
    IN Rect(maskX, maskY, maskWidth, maskHeight)

\* iterations of a loop for (v = start; v < start + length && v < limit; v++)
LoopCount(start, length, limit) == Max2(0, Min2(start + length, limit) - start)

\* the pixels the two loops of createSimpleMask set to white
SimpleMaskWhite(image, rect) ==
    LoopCount(rect.x, rect.width, image.width) * LoopCount(rect.y, rect.height, image.height)

\* createBoundingBoxMask: floor of maskX, maskY, validMaskWidth, validMaskHeight
BoundingBoxMaskRect(image, bounds) ==
    LET maskX == Max2(0, bounds.x - MaskPadding * HalfUnit)
        maskY == Max2(0, bounds.y - MaskPadding * HalfUnit)
        maskWidth == Min2(image.width * HalfUnit - maskX, bounds.width + MaskPadding * 2 * HalfUnit)
        maskHeight == Min2(image.height * HalfUnit - maskY, bounds.height + MaskPadding * 2 * HalfUnit)
        validMaskWidth == Max2(HalfUnit, Min2(image.width * HalfUnit - maskX, maskWidth))
        validMaskHeight == Max2(HalfUnit, Min2(image.height * HalfUnit - maskY, maskHeight))
    IN Rect(Floor(maskX), Floor(maskY), Floor(validMaskWidth), Floor(validMaskHeight))

\* the white rectangle composited at (left, top): the output keeps the size
\* of the black background, so what falls outside it is clipped
CompositeWhite(image, rect) ==
    LoopCount(rect.x, rect.width, image.width) * LoopCount(rect.y, rect.height, image.height)

MaskImagePool == {Dims(40, 30), Dims(30, 40)}

\* bounding boxes a client may send: inside, across an edge, beyond the
\* right or bottom edge, left of the image, empty, fractional
BoundsPool ==
    { Rect(a, b, w, 20) : a \in {-60, 11, 70, 100}, b \in {0, 90}, w \in {0, 10, 21, 120} }

PolygonPool ==
    { <<10, 10, 40, 10, 25, 40>>,
      <<60, 10, 120, 10, 120, 40>>,
      <<100, 10, 120, 10, 110, 30>>,
      <<-40, -40, -20, -40, -30, -20>>,
      <<20, 10, 20, 40>>,
      <<21, 10, 21, 40>> }

InitMask ==
    /\ IntentOff
    /\ RecOff
    /\ WorkflowOff
    /\ ScaleOff
    /\ PointerOff
    /\ ReplacerOff
    /\ ServerOff
    /\ mOp = "none"
    /\ mPc = "idle"
    /\ mImage = NoDims
    /\ mInput = <<>>
    /\ mRect = Rect(0, 0, 0, 0)
    /\ mWhite = 0
    /\ mOutcome = "none"

\* cropObjectFromImage: extract throws on an empty rectangle and the catch
\* block answers { success: false, error }
CropObject(image, points) ==
    /\ mPc = "idle"
    /\ mOp' = "cropObjectFromImage"
    /\ mImage' = image
    /\ mInput' = points
    /\ LET rect == CropRect(image, points)
       IN /\ mRect' = rect
          /\ IF ExtractAccepts(rect)
             THEN mWhite' = rect.width * rect.height /\ mOutcome' = "success"
             ELSE mWhite' = 0 /\ mOutcome' = "failure"
    /\ mPc' = "done"

\* createSimpleMask: nothing between the arithmetic and the return can throw
CreateSimpleMask(image, bounds) ==
    /\ mPc = "idle"
    /\ mOp' = "createSimpleMask"
    /\ mImage' = image
    /\ mInput' = bounds
    /\ LET rect == SimpleMaskRect(image, bounds)
       IN /\ mRect' = rect
          /\ mWhite' = SimpleMaskWhite(image, rect)
    /\ mOutcome' = "success"
    /\ mPc' = "done"

\* createBoundingBoxMask: the white rectangle is at least 1 x 1 and is
\* composited at (maskX, maskY)
CreateBoundingBoxMask(image, bounds) ==
    /\ mPc = "idle"
    /\ mOp' = "createBoundingBoxMask"
    /\ mImage' = image
    /\ mInput' = bounds
    /\ LET rect == BoundingBoxMaskRect(image, bounds)
       IN /\ mRect' = rect
          /\ mWhite' = CompositeWhite(image, rect)
    /\ mOutcome' = "success"
    /\ mPc' = "done"

NextMask ==
    /\ \/ \E image \in MaskImagePool : \E points \in PolygonPool : CropObject(image, points)
       \/ \E image \in MaskImagePool : \E bounds \in BoundsPool : CreateSimpleMask(image, bounds)
       \/ \E image \in MaskImagePool : \E bounds \in BoundsPool : CreateBoundingBoxMask(image, bounds)
    /\ UNCHANGED <<intentVars, recVars, wfVars, scaleVars, pointerVars, replVars, editVars>>

SpecMask == InitMask /\ [][NextMask]_vars

(***************************************************************************)
(* Coordinate rescaling (replaceObjectWithSceneDiff, step 3).              *)
(*                                                                         *)
(* JavaScript numbers are IEEE 754 doubles.  A positive double is kept as  *)
(* its 53 significand bits and a binary exponent; a / b and x * y are      *)
(* rounded to nearest, ties to even, as the hardware does.  Long           *)
(* multiplication and division proceed in chunks of ChunkBits digits so    *)
(* that every intermediate number stays below 2^31.                        *)
(***************************************************************************)
Precision == 53
ChunkBits == 14

Zeros(n) == [i \in 1..n |-> 0]

\* the w binary digits of n < 2^w, most significant first
BitsOfWidth(n, w) == [i \in 1..w |-> (n \div 2^(w - i)) % 2]

StripLeadingZeros(bits) ==
    IF \A i \in 1..Len(bits) : bits[i] = 0 THEN <<>>
    ELSE LET first == CHOOSE i \in 1..Len(bits) :
                          bits[i] = 1 /\ \A j \in 1..(i - 1) : bits[j] = 0
         IN SubSeq(bits, first, Len(bits))

\* the binary digits of 0 <= n < 2^30, without leading zeros
BitsOf(n) == StripLeadingZeros(BitsOfWidth(n, 30))

\* a double: sig holds the 53 significand bits, most significant first and
\* starting with 1; the value is sig * 2^exp.  Zero has no bits.
FZero == [sig |-> <<>>, exp |-> 0]

\* bits + 1 for a sequence that is not all ones
IncBits(bits) ==
    LET last == CHOOSE i \in 1..Len(bits) :
                    bits[i] = 0 /\ \A j \in (i + 1)..Len(bits) : bits[j] = 1
    IN [i \in 1..Len(bits) |-> IF i < last THEN bits[i] ELSE IF i = last THEN 1 ELSE 0]

\* bits - 1 for a sequence that is not all zeros
DecBits(bits) ==
    LET last == CHOOSE i \in 1..Len(bits) :
                    bits[i] = 1 /\ \A j \in (i + 1)..Len(bits) : bits[j] = 0
    IN [i \in 1..Len(bits) |-> IF i < last THEN bits[i] ELSE IF i = last THEN 0 ELSE 1]

\* round-to-nearest, ties-to-even of bits * 2^exp (bits starts with 1;
\* sticky tells that non-zero digits follow the given ones)
RoundToDouble(bits, sticky, exp) ==
    LET n == Len(bits)
    IN IF n <= Precision
       THEN [sig |-> bits \o Zeros(Precision - n), exp |-> exp - (Precision - n)]
       ELSE LET kept == SubSeq(bits, 1, Precision)
                guard == bits[Precision + 1]
                rest == sticky \/ \E i \in (Precision + 2)..n : bits[i] = 1
                roundUp == guard = 1 /\ (rest \/ kept[Precision] = 1)
                e == exp + (n - Precision)
            IN IF ~roundUp THEN [sig |-> kept, exp |-> e]
               ELSE IF \A i \in 1..Precision : kept[i] = 1
                    THEN [sig |-> <<1>> \o Zeros(Precision - 1), exp |-> e + 1]
                    ELSE [sig |-> IncBits(kept), exp |-> e]

\* the double of a whole number
FromInt(n) == IF n = 0 THEN FZero ELSE RoundToDouble(BitsOf(n), FALSE, 0)

\* how many digit pairs of a and b meet in column k of the long multiplication
ColumnSum(a, b, k) ==
    Cardinality({i \in Max2(0, k - Precision + 1)..Min2(k, Precision - 1) :
                    a[Precision - i] = 1 /\ b[Precision - (k - i)] = 1})

RECURSIVE ChunkValue(_, _, _, _)
ChunkValue(a, b, base, j) ==
    IF j = ChunkBits THEN 0
    ELSE ColumnSum(a, b, base + j) * 2^j + ChunkValue(a, b, base, j + 1)

\* the digits of a * b from chunk c upwards, most significant first
RECURSIVE MulChunks(_, _, _, _)
MulChunks(a, b, c, carry) ==
    IF c * ChunkBits > 2 * Precision THEN <<>>
    ELSE LET total == ChunkValue(a, b, c * ChunkBits, 0) + carry
         IN IF total < 2^ChunkBits
            THEN MulChunks(a, b, c + 1, 0) \o BitsOfWidth(total, ChunkBits)
            ELSE MulChunks(a, b, c + 1, total \div 2^ChunkBits)
                     \o BitsOfWidth(total % 2^ChunkBits, ChunkBits)

\* x * y of two doubles, correctly rounded
FMul(x, y) ==
    IF x = FZero \/ y = FZero THEN FZero
    ELSE RoundToDouble(StripLeadingZeros(MulChunks(x.sig, y.sig, 0, 0)),
                       FALSE, x.exp + y.exp)

\* a / b = (n / d) * 2^k with d <= n < 2 * d
RECURSIVE Align(_, _, _)
Align(n, d, k) ==
    IF n >= 2 * d THEN Align(n, 2 * d, k + 1)
    ELSE IF n < d THEN Align(2 * n, d, k - 1)
    ELSE [n |-> n, d |-> d, k |-> k]

\* count chunks of the digits of r / d after the binary point, and what is left
RECURSIVE DivChunks(_, _, _)
DivChunks(r, d, count) ==
    IF count = 0 THEN [bits |-> <<>>, rem |-> r]
    ELSE LET shifted == r * 2^ChunkBits
             next == DivChunks(shifted % d, d, count - 1)
         IN [bits |-> BitsOfWidth(shifted \div d, ChunkBits) \o next.bits,
             rem |-> next.rem]

\* Variant of the division that keeps only the first chunk of the quotient.
FDivCoarse(a, b) ==
    IF a = 0 THEN FZero
    ELSE LET al == Align(a, b, 0)
             q == DivChunks(al.n - al.d, al.d, 1)
         IN RoundToDouble(<<1>> \o q.bits, FALSE, al.k - ChunkBits)

\* a / b of two positive whole numbers below 2^16, correctly rounded
FDiv(a, b) ==
    IF a = 0 THEN FZero
    ELSE LET al == Align(a, b, 0)
             q == DivChunks(al.n - al.d, al.d, 4)
         IN RoundToDouble(<<1>> \o q.bits, q.rem # 0, al.k - 4 * ChunkBits)

\* the next double above and below a positive double
FSucc(x) ==
    IF \A i \in 1..Precision : x.sig[i] = 1
    THEN [sig |-> <<1>> \o Zeros(Precision - 1), exp |-> x.exp + 1]
    ELSE [sig |-> IncBits(x.sig), exp |-> x.exp]

FPred(x) ==
    IF \A i \in 2..Precision : x.sig[i] = 0
    THEN [sig |-> [i \in 1..Precision |-> 1], exp |-> x.exp - 1]
    ELSE [sig |-> DecBits(x.sig), exp |-> x.exp]

\* segmentationMask.map((coord, index) => index % 2 === 0 ? coord * scaleX
\* : coord * scaleY) with scaleX = toSize.width / fromSize.width and scaleY
\* = toSize.height / fromSize.height; the code has toSize = 1024 x 1024.
\* Index 0 of the code is index 1 here.
ScaleCoordinates(coords, fromSize, toSize) ==
    LET scaleX == FDiv(toSize.width, fromSize.width)
        scaleY == FDiv(toSize.height, fromSize.height)
    IN [i \in 1..Len(coords) |->
           IF i % 2 = 1 THEN FMul(coords[i], scaleX) ELSE FMul(coords[i], scaleY)]

MaxCoordLen == 2

\* sizes of the original and of the generated image
SizePool == {Dims(800, 600), Dims(GeneratedSize, GeneratedSize), Dims(640, 480)}

\* pixel coordinates of a mask
CoordPool == {0, 7, 29, 200, 450, 599}

InitRescale ==
    /\ IntentOff
    /\ RecOff
    /\ WorkflowOff
    /\ MaskOff
    /\ PointerOff
    /\ ReplacerOff
    /\ ServerOff
    /\ sPc = "ready"
    /\ sCoords \in UNION {[1..n -> CoordPool] : n \in 0..MaxCoordLen}
    /\ sFrom \in SizePool
    /\ sTo \in SizePool
    /\ sScaled = <<>>
    /\ sBack = <<>>

\* the coordinates are rescaled for the other image
Rescale ==
    /\ sPc = "ready"
    /\ sPc' = "scaled"
    /\ sScaled' = ScaleCoordinates([i \in 1..Len(sCoords) |-> FromInt(sCoords[i])],
                                   sFrom, sTo)
    /\ UNCHANGED <<sCoords, sFrom, sTo, sBack>>

\* the rescaled coordinates are rescaled for the first image again
RescaleBack ==
    /\ sPc = "scaled"
    /\ sPc' = "back"
    /\ sBack' = ScaleCoordinates(sScaled, sTo, sFrom)
    /\ UNCHANGED <<sCoords, sFrom, sTo, sScaled>>

NextRescale ==
    /\ Rescale \/ RescaleBack
    /\ UNCHANGED <<intentVars, recVars, wfVars, maskVars, pointerVars, replVars, editVars>>

SpecRescale == InitRescale /\ [][NextRescale]_vars

(***************************************************************************)
(* Pointer events and recognition responses of PenSelector.                *)
(*                                                                         *)
(* A mouse-up or the "Analyze Full Image" button creates an Image whose    *)
(* onload calls recognitionMutation.mutate; the mutation settles later.    *)
(* While the latest mutation is pending an overlay covers the canvas and   *)
(* the button is disabled.  Each request carries, as history, whether the  *)
(* user began a new drawing after its path was sent.                       *)
(***************************************************************************)
MaxRequests == 2

\* the strokes a user draws, point by point
StrokePool == {SquarePath, SmallPath}

\* response.objects of a settled mutation
ResponsePool == { <<Det("chair", 90, 3, 3, 6, 6), Det("sofa", 50, 9, 9, 3, 3)>> }

Request(id, drawingPath, stale) == [id |-> id, drawingPath |-> drawingPath, stale |-> stale]

\* recognitionMutation.isPending: the latest mutation has not settled
isPending == \E r \in inFlight : r.id = currentMutation

\* the requests under way, marked as overtaken by a new drawing
Overtaken(requests) == {Request(r.id, r.drawingPath, TRUE) : r \in requests}

InitPointer ==
    /\ IntentOff
    /\ RecOff
    /\ WorkflowOff
    /\ MaskOff
    /\ ScaleOff
    /\ ReplacerOff
    /\ ServerOff
    /\ pPc = "mounted"
    /\ isDrawing = FALSE
    /\ currentPath = <<>>
    /\ imageLoads = {}
    /\ inFlight = {}
    /\ currentMutation = 0
    /\ mutationVariables = <<>>
    /\ shownObjects = <<>>
    /\ requestCount = 0
    /\ lastApplied = NoApplication

\* handleMouseDown / handleTouchStart: a new path begins, the detections
\* on the screen are cleared
handleMouseDown(coords) ==
    /\ pPc = "mounted"
    /\ ~isPending
    /\ isDrawing' = TRUE
    /\ currentPath' = <<coords>>
    /\ shownObjects' = <<>>
    /\ lastApplied' = NoApplication
    /\ imageLoads' = Overtaken(imageLoads)
    /\ inFlight' = Overtaken(inFlight)
    /\ UNCHANGED <<pPc, currentMutation, mutationVariables, requestCount>>

\* handleMouseMove / handleTouchMove: one more point of the stroke
handleMouseMove(coords) ==
    /\ pPc = "mounted"
    /\ ~isPending
    /\ isDrawing
    /\ currentPath' = Append(currentPath, coords)
    /\ UNCHANGED <<pPc, isDrawing, imageLoads, inFlight, currentMutation,
                   mutationVariables, shownObjects, requestCount, lastApplied>>

\* handleMouseUp / handleTouchEnd: the path is complete; with more than 3
\* points an Image is created whose onload will start the recognition
handleMouseUp ==
    /\ pPc = "mounted"
    /\ ~isPending
    /\ isDrawing
    /\ Len(currentPath) > 3 => requestCount < MaxRequests
    /\ isDrawing' = FALSE
    /\ IF Len(currentPath) > 3
       THEN /\ imageLoads' = imageLoads \cup {Request(requestCount + 1, currentPath, FALSE)}
            /\ requestCount' = requestCount + 1
       ELSE UNCHANGED <<imageLoads, requestCount>>
    /\ UNCHANGED <<pPc, currentPath, inFlight, currentMutation, mutationVariables,
                   shownObjects, lastApplied>>

\* analyzeFullImage: the button is disabled while the mutation is pending;
\* the request carries the empty path
analyzeFullImage ==
    /\ pPc = "mounted"
    /\ ~isPending
    /\ requestCount < MaxRequests
    /\ imageLoads' = imageLoads \cup {Request(requestCount + 1, <<>>, FALSE)}
    /\ requestCount' = requestCount + 1
    /\ UNCHANGED <<pPc, isDrawing, currentPath, inFlight, currentMutation,
                   mutationVariables, shownObjects, lastApplied>>

\* img.onload: recognitionMutation.mutate({ imageUrl, drawingPath, ... })
ImageLoaded(load) ==
    /\ load \in imageLoads
    /\ imageLoads' = imageLoads \ {load}
    /\ inFlight' = inFlight \cup {load}
    /\ currentMutation' = load.id
    /\ mutationVariables' = load.drawingPath
    /\ UNCHANGED <<pPc, isDrawing, currentPath, shownObjects, requestCount, lastApplied>>

\* onSuccess of a settled mutation.  recognitionMutation.variables is read
\* through the closure of a render: it is the path of this mutation, or the
\* path of the latest mutate call when that one came later.
MutationSucceeded(request, objects) ==
    /\ request \in inFlight
    /\ inFlight' = inFlight \ {request}
    /\ \E drawingPath \in {request.drawingPath, mutationVariables} :
          /\ shownObjects' = analyzeUserIntention(drawingPath, objects)
          /\ lastApplied' = [sent |-> request.drawingPath, resolved |-> drawingPath,
                             stale |-> request.stale, applied |-> TRUE]
    /\ UNCHANGED <<pPc, isDrawing, currentPath, imageLoads, currentMutation,
                   mutationVariables, requestCount>>

\* the next point of the stroke that starts like the path on the canvas
NextPoints ==
    {stroke[Len(currentPath) + 1] :
        stroke \in {st \in StrokePool : /\ Len(st) > Len(currentPath)
                                        /\ SubSeq(st, 1, Len(currentPath)) = currentPath}}

NextPointer ==
    /\ \/ \E stroke \in StrokePool : handleMouseDown(stroke[1])
       \/ \E coords \in NextPoints : handleMouseMove(coords)
       \/ handleMouseUp
       \/ analyzeFullImage
       \/ \E load \in imageLoads : ImageLoaded(load)
       \/ \E request \in inFlight : \E objects \in ResponsePool :
              MutationSucceeded(request, objects)
    /\ UNCHANGED <<intentVars, recVars, wfVars, maskVars, scaleVars, replVars, editVars>>

SpecPointer == InitPointer /\ [][NextPointer]_vars

(***************************************************************************)
(* Picking a detected object and replacing it: the object list of          *)
(* PenSelector, GrokObjectReplacer.handleReplace and the step-by-step      *)
(* workflow it awaits.  One workflow call is followed to its end.          *)
(***************************************************************************)
\* the canvas has the size of the image: canvas.width = img.naturalWidth
CanvasImage == Dims(12, 12)

\* what the user may type as the replacement prompt
PromptPool == {"", "  ", "armchair"}

\* String.prototype.trim on the prompts that occur
Trim(prompt) == IF prompt = "  " THEN "" ELSE prompt

\* currentPath.points.flatMap(p => [p.x, p.y])
FlatMapPoints(points) ==
    [i \in 1..(2 * Len(points)) |->
        IF i % 2 = 1 THEN points[(i + 1) \div 2].x ELSE points[i \div 2].y]

\* { ...obj, segmentation }
Selection(obj, segmentation) == [object |-> obj, segmentation |-> segmentation]

\* no GrokObjectReplacer and no ObjectModifier is open (both cover the page)
NoDialog ==
    /\ selectedObjectForModification = <<>>
    /\ selectedObjectForGrokReplacement = <<>>

\* the state a recognition run leaves: the path on the canvas, and the
\* detections onSuccess resolved against the path of the request, which is
\* the drawn path (handleMouseUp) or the empty one (analyzeFullImage)
InitReplacer ==
    /\ IntentOff
    /\ RecOff
    /\ MaskOff
    /\ ScaleOff
    /\ PointerOff
    /\ ServerOff
    /\ wKind = "none"
    /\ wPc = "idle"
    /\ wImage = NoDims
    /\ wMask = NoMask
    /\ wGenerated = NoDims
    /\ wClean = FALSE
    /\ wCropped = FALSE
    /\ wObject = "none"
    /\ wApplied = <<>>
    /\ wProgress = <<>>
    /\ wFailed = {}
    /\ wUpstream = {}
    /\ wResult = NoResult
    /\ gPc = "mounted"
    /\ \E path \in RecPathPool : \E requested \in {path, EmptyPath} :
       \E yolo \in UpToSeqs(YoloPool, MaxDet) : \E google \in UpToSeqs(GooglePool, 1) :
           /\ gPath = path
           /\ gDetected = analyzeUserIntention(requested, FuseDetections(yolo, google))
    /\ selectedObjectForModification = <<>>
    /\ selectedObjectForGrokReplacement = <<>>
    /\ replacementPrompt = ""
    /\ isProcessing = FALSE
    /\ processedImageUrl = "original"
    /\ gPicked = <<>>
    /\ gStarted = <<>>

\* onClick of an entry of the detected-object list; a GrokObjectReplacer
\* that opens starts with an empty prompt
ClickObject(index) ==
    /\ gPc = "mounted"
    /\ NoDialog
    /\ index \in 1..Len(gDetected)
    /\ IF Len(gPath) > 0
       THEN /\ selectedObjectForGrokReplacement'
                  = <<Selection(gDetected[index], FlatMapPoints(gPath))>>
            /\ UNCHANGED selectedObjectForModification
       ELSE /\ selectedObjectForModification' = <<Selection(gDetected[index], <<>>)>>
            /\ UNCHANGED selectedObjectForGrokReplacement
    /\ replacementPrompt' = ""
    /\ gPicked' = <<[object |-> gDetected[index], shown |-> gDetected]>>
    /\ UNCHANGED <<gPc, gPath, gDetected, isProcessing, processedImageUrl, gStarted>>
    /\ UNCHANGED wfVars

\* setReplacementPrompt from the input or from a suggestion
SetPrompt(prompt) ==
    /\ selectedObjectForGrokReplacement # <<>>
    /\ ~isProcessing
    /\ replacementPrompt' = prompt
    /\ UNCHANGED <<gPc, gPath, gDetected, selectedObjectForModification,
                   selectedObjectForGrokReplacement, isProcessing, processedImageUrl,
                   gPicked, gStarted>>
    /\ UNCHANGED wfVars

\* Variant of handleReplace that does not wait for a selection: it runs the
\* workflow for the first detected object.
handleReplaceFirstDetected ==
    /\ gPc = "mounted"
    /\ ~isProcessing
    /\ Len(gDetected) > 0
    /\ Len(gPath) > 0
    /\ isProcessing' = TRUE
    /\ gStarted' = <<Selection(gDetected[1], FlatMapPoints(gPath))>>
    /\ StepByStepStart(CanvasImage, Mask(FlatMapPoints(gPath), CanvasImage))
    /\ UNCHANGED <<gPc, gPath, gDetected, selectedObjectForModification,
                   selectedObjectForGrokReplacement, replacementPrompt,
                   processedImageUrl, gPicked>>

\* GrokObjectReplacer.handleReplace up to its await: the component renders
\* only with a selectedObject, the button is disabled while processing, and
\* the handler returns at once without a prompt or a segmentation (an array,
\* so always truthy)
handleReplace ==
    /\ selectedObjectForGrokReplacement # <<>>
    /\ ~isProcessing
    /\ Trim(replacementPrompt) # ""
    /\ isProcessing' = TRUE
    /\ gStarted' = selectedObjectForGrokReplacement
    /\ StepByStepStart(CanvasImage,
                       Mask(selectedObjectForGrokReplacement[1].segmentation, CanvasImage))
    /\ UNCHANGED <<gPc, gPath, gDetected, selectedObjectForModification,
                   selectedObjectForGrokReplacement, replacementPrompt,
                   processedImageUrl, gPicked>>

\* handleReplace after its await, with onReplacementComplete of PenSelector:
\* the callback runs for a successful result and acts only when the result
\* has a finalImageBase64
ReplaceSettled ==
    /\ isProcessing
    /\ wKind = "stepByStep" /\ wPc = "done"
    /\ isProcessing' = FALSE
    /\ IF wResult.outcome = "success" /\ wResult.finalImage # NoDims
       THEN /\ processedImageUrl' = "final"
            /\ selectedObjectForGrokReplacement' = <<>>
            /\ gPath' = <<>>
            /\ gDetected' = <<>>
       ELSE UNCHANGED <<processedImageUrl, selectedObjectForGrokReplacement, gPath,
                        gDetected>>
    /\ UNCHANGED <<gPc, selectedObjectForModification, replacementPrompt, gPicked,
                   gStarted>>
    /\ UNCHANGED wfVars

\* onClose of GrokObjectReplacer (its button is disabled while processing)
CloseReplacer ==
    /\ selectedObjectForGrokReplacement # <<>>
    /\ ~isProcessing
    /\ selectedObjectForGrokReplacement' = <<>>
    /\ UNCHANGED <<gPc, gPath, gDetected, selectedObjectForModification,
                   replacementPrompt, isProcessing, processedImageUrl, gPicked, gStarted>>
    /\ UNCHANGED wfVars

\* onClose of ObjectModifier
CloseModifier ==
    /\ selectedObjectForModification # <<>>
    /\ selectedObjectForModification' = <<>>
    /\ UNCHANGED <<gPc, gPath, gDetected, selectedObjectForGrokReplacement,
                   replacementPrompt, isProcessing, processedImageUrl, gPicked, gStarted>>
    /\ UNCHANGED wfVars

\* clearSelection (the button is enabled with a path or with detections)
ClearSelection ==
    /\ gPc = "mounted"
    /\ NoDialog
    /\ Len(gPath) > 0 \/ Len(gDetected) > 0
    /\ gPath' = <<>>
    /\ gDetected' = <<>>
    /\ UNCHANGED <<gPc, selectedObjectForModification, selectedObjectForGrokReplacement,
                   replacementPrompt, isProcessing, processedImageUrl, gPicked, gStarted>>
    /\ UNCHANGED wfVars

NextReplacer ==
    /\ \/ \E index \in 1..Len(gDetected) : ClickObject(index)
       \/ \E prompt \in PromptPool : SetPrompt(prompt)
       \/ handleReplace
       \/ StepCropped /\ UNCHANGED replVars
       \/ \E message \in UpstreamErrors : StepCropFailed(message) /\ UNCHANGED replVars
       \/ \E message \in GenerateReplacementErrors :
              StepGenerationFailed(message) /\ UNCHANGED replVars
       \/ StepGenerated /\ UNCHANGED replVars
       \/ ReplaceSettled
       \/ CloseReplacer
       \/ CloseModifier
       \/ ClearSelection
    /\ UNCHANGED <<intentVars, recVars, maskVars, scaleVars, pointerVars, editVars>>

SpecReplacer == InitReplacer /\ [][NextReplacer]_vars

(***************************************************************************)
(* POST requests under /api/grok: the routers registerRoutes mounts, in    *)
(* mount order, and the handler that answers /smart-edit.  Express gives   *)
(* a request to the first mounted router that has a route for it; a        *)
(* handler that answers without calling next() ends the dispatch.          *)
(***************************************************************************)
MaxEdits == 2

\* app.use("/api/grok", ...) in mount order, with the POST routes of each
\* router; the file of grokDirectEditRouter is not among the sources
MountedRouters ==
    << [name |-> "grokReplacementRouter",
        posts |-> {"/crop-object", "/generate-replacement", "/replace-object-scene",
                   "/replace-object"}],
       [name |-> "grokAutomationRouter", posts |-> {"/automate-edit"}],
       [name |-> "grokTestRouter", posts |-> {"/test-grok-connection", "/test-grok-vision"}],
       [name |-> "grokDalleFallbackRouter", posts |-> {"/smart-edit"}],
       [name |-> "grokDirectEditRouter", posts |-> {}],
       [name |-> "grokWebEditRouter", posts |-> {"/web-edit"}],
       [name |-> "grokDeploymentRouter", posts |-> {"/deployment-status", "/smart-edit"}] >>

\* the router whose handler gets a POST to /api/grok<path>
RouteOf(path) ==
    LET matching == {i \in 1..Len(MountedRouters) : path \in MountedRouters[i].posts}
    IN IF matching = {} THEN "none"
       ELSE MountedRouters[CHOOSE i \in matching : \A j \in matching : i <= j].name

\* what GrokEditor.handleGrokEdit and other clients may post
EditBodyPool ==
    { Body("/smart-edit", imageUrl, prompt) :
          imageUrl \in {"", "room.jpg", "hall.jpg"}, prompt \in {"", "add a sofa", "remove the lamp"} }

InitSmartEdit ==
    /\ IntentOff
    /\ RecOff
    /\ WorkflowOff
    /\ MaskOff
    /\ ScaleOff
    /\ PointerOff
    /\ ReplacerOff
    /\ ePc = "idle"
    /\ eRequest = NoRequest
    /\ eHandler = "none"
    /\ eTried = <<>>
    /\ eSent = 0
    /\ eCount = 0
    /\ eResponses = <<>>

\* a response as the client sees it, with what the handler did before
Response(request, handler, status, method, tried) ==
    [request |-> request, handler |-> handler, status |-> status, method |-> method,
     tried |-> tried]

\* res.json / res.status(...).json: the handler ends
Respond(status, method, tried) ==
    /\ eResponses' = Append(eResponses, Response(eRequest, eHandler, status, method, tried))
    /\ eSent' = eSent + 1
    /\ eTried' = tried
    /\ ePc' = "idle"
    /\ UNCHANGED <<eRequest, eHandler, eCount>>

\* a POST arrives and runs up to the first await of its handler: both
\* /smart-edit handlers answer 400 without imageUrl or prompt; the one of
\* grokDalleFallbackRouter then asks Grok for an analysis, the one of
\* grokDeploymentRouter would start the web automation
Post(body) ==
    /\ ePc = "idle"
    /\ eCount < MaxEdits
    /\ eCount' = eCount + 1
    /\ eRequest' = body
    /\ eHandler' = RouteOf(body.path)
    /\ IF body.imageUrl = "" \/ body.prompt = ""
       THEN /\ eResponses' = Append(eResponses,
                                    Response(body, RouteOf(body.path), 400, "none", <<>>))
            /\ eSent' = 1
            /\ eTried' = <<>>
            /\ ePc' = "idle"
       ELSE /\ eSent' = 0
            /\ eTried' = <<>>
            /\ ePc' = IF RouteOf(body.path) = "grokDalleFallbackRouter"
                      THEN "analysis" ELSE "web"
            /\ UNCHANGED eResponses

\* grokClient.chat.completions.create returned the enhanced prompt
GrokAnalysed ==
    /\ ePc = "analysis"
    /\ eTried' = Append(eTried, "grok-analysis")
    /\ ePc' = "dalle"
    /\ UNCHANGED <<eRequest, eHandler, eSent, eCount, eResponses>>

\* the analysis failed with 403 and a credits message: the basic prompt is used
GrokOutOfCredits ==
    /\ ePc = "analysis"
    /\ eTried' = Append(eTried, "grok-analysis-failed")
    /\ ePc' = "dalle"
    /\ UNCHANGED <<eRequest, eHandler, eSent, eCount, eResponses>>

\* the analysis failed otherwise: rethrown, and the outer catch answers 500
GrokAnalysisFailed ==
    /\ ePc = "analysis"
    /\ Respond(500, "grok-dalle-fallback", Append(eTried, "grok-analysis-failed"))

\* dalleClient.images.generate returned
DalleGenerated ==
    /\ ePc = "dalle"
    /\ Respond(200, "grok-analysis + dalle-generation", Append(eTried, "dalle-generation"))

\* dalleClient.images.generate threw: the outer catch answers 500
DalleFailed ==
    /\ ePc = "dalle"
    /\ Respond(500, "grok-dalle-fallback", Append(eTried, "dalle-generation-failed"))

NextSmartEdit ==
    /\ \/ \E body \in EditBodyPool : Post(body)
       \/ GrokAnalysed
       \/ GrokOutOfCredits
       \/ GrokAnalysisFailed
       \/ DalleGenerated
       \/ DalleFailed
    /\ UNCHANGED <<intentVars, recVars, wfVars, maskVars, scaleVars, pointerVars, replVars>>

SpecSmartEdit == InitSmartEdit /\ [][NextSmartEdit]_vars

(***************************************************************************)
(* Claims about the intention resolver (under SpecIntent).                 *)
(***************************************************************************)
Range(s) == {s[i] : i \in 1..Len(s)}

Resolved == iPc = "done" /\ Len(iPath) > 0

\* iScored holds one score per candidate, in descending order
ScoredIsSortedScoring ==
    /\ Len(iScored) = Len(iObjects)
    /\ \A i \in 1..Len(iObjects) : \E k \in 1..Len(iScored) : iScored[k].object = iObjects[i]
    /\ \A k \in 1..Len(iScored) - 1 : iScored[k].score >= iScored[k + 1].score

\* how many candidates score above 0.3 (a prefix of iScored, which is sorted)
NumMeaningful == Cardinality({k \in 1..Len(iScored) : iScored[k].score > MeaningfulPct * FactorScale})

TopObjects(n) == [i \in 1..n |-> iScored[i].object]

\* C2 as stated: for a non-empty path, with the candidates in descending
\* score order, a top score more than 0.2 above the second-best returns
\* exactly the top candidate; otherwise the result is the highest-scoring
\* candidates in descending order, at most three.
C2_Original ==
    (Resolved /\ Len(iScored) >= 1) =>
        /\ ScoredIsSortedScoring
        /\ IF Len(iScored) >= 2 /\ iScored[1].score - iScored[2].score > TieBreakPct * FactorScale
           THEN iResult = <<iScored[1].object>>
           ELSE Len(iResult) <= MaxResults /\ iResult = TopObjects(Len(iResult))

\* C2 amended: the comparison is made among the candidates scoring above
\* 0.3 only.  With none the result is empty; with one, or with the top more
\* than 0.2 above the second of them, the result is exactly the top
\* candidate; otherwise it is the first three (or two) of them in
\* descending score order.
C2_SelectionAmongMeaningful ==
    Resolved =>
        /\ ScoredIsSortedScoring
        /\ IF NumMeaningful = 0 THEN iResult = <<>>
           ELSE IF NumMeaningful = 1
                   \/ iScored[1].score - iScored[2].score > TieBreakPct * FactorScale
                THEN iResult = <<iScored[1].object>>
                ELSE iResult = TopObjects(Min2(MaxResults, NumMeaningful))

\* four candidates above 0.3 with close scores were cut to three
C2_Witness ==
    Resolved /\ NumMeaningful >= 4 /\ Len(iResult) = 3

\* C3: for a non-empty path no candidate whose total score is <= 0.3 is in
\* the result, and the result is empty when no candidate scores above 0.3.
C3_LowScoresExcluded ==
    Resolved =>
        /\ ScoredIsSortedScoring
        /\ \A k \in 1..Len(iScored) :
              iScored[k].score <= MeaningfulPct * FactorScale
                  => iScored[k].object \notin Range(iResult)
        /\ NumMeaningful = 0 => iResult = <<>>

\* a candidate at or below 0.3 was dropped while another one was returned
C3_Witness ==
    /\ Resolved
    /\ iResult # <<>>
    /\ \E k \in 1..Len(iScored) :
          /\ iScored[k].score <= MeaningfulPct * FactorScale
          /\ iScored[k].score > TieBreakPct * FactorScale

\* C4: with an empty drawing path analyzeUserIntention returns the candidate
\* list itself: same objects, same order, nothing added or dropped.
C4_EmptyPathReturnsAll ==
    (iPc = "done" /\ Len(iPath) = 0) => iResult = iObjects

\* the resolver ran on an empty path with several candidates
C4_Witness ==
    iPc = "done" /\ Len(iPath) = 0 /\ Len(iObjects) >= 2

(***************************************************************************)
(* Claims about a recognition run.                                         *)
(***************************************************************************)
Fused == rPc \in {"resolved", "settled"}

OverlapArea(o1, o2) ==
    Max2(0, Min2(o1.x + o1.width, o2.x + o2.width) - Max2(o1.x, o2.x))
    * Max2(0, Min2(o1.y + o1.height, o2.y + o2.height) - Max2(o1.y, o2.y))

\* the intersection over union of the two boxes is exactly tenths / 10
IoUIsTenths(o1, o2, tenths) ==
    OverlapArea(o1, o2) * 10
        = tenths * (o1.width * o1.height + o2.width * o2.height - OverlapArea(o1, o2))

SameDetection(h, d) ==
    /\ h.name = d.name
    /\ h.x = d.x /\ h.y = d.y /\ h.width = d.width /\ h.height = d.height

SameReport(y, g) ==
    /\ ToLowerCase(y.name) = ToLowerCase(g.name)
    /\ IoUIsTenths(y, g, 6)

\* C1: when YOLO (confidence 0.5) and Google Vision report the same object
\* (same name, boxes at IoU 0.6), the fused list holds the YOLO detection and
\* not the Google one, whatever the Google detection's confidence is.
C1_YoloWinsOverGoogle ==
    Fused =>
        \A i \in 1..Len(yoloObjects) : \A j \in 1..Len(googleObjects) :
            (yoloObjects[i].confidence = 50 /\ SameReport(yoloObjects[i], googleObjects[j]))
            => /\ TagYolo(yoloObjects[i]) \in Range(hybridObjects)
               /\ \A h \in Range(hybridObjects) :
                      ~(h.source = "Google Vision" /\ SameDetection(h, googleObjects[j]))

C1_Witness ==
    /\ rPc = "settled"
    /\ \E i \in 1..Len(yoloObjects) : \E j \in 1..Len(googleObjects) :
           /\ yoloObjects[i].confidence = 50
           /\ googleObjects[j].confidence = 90
           /\ yoloObjects[i].name = "table"
           /\ SameReport(yoloObjects[i], googleObjects[j])
           /\ TagYolo(yoloObjects[i]) \in Range(hybridObjects)

\* C7: a run in which both the YOLO call and the Google Vision call threw
\* ends in the failure outcome (the mutation is in error and the failure is
\* what the user is told), not in a successful result.
C7_TotalFailureIsReported ==
    (rPc = "settled" /\ yoloFailed /\ googleFailed)
    => (mutationStatus = "error" /\ toastTitle = "Recognition failed")

\* C8: every fused detection has the name, confidence, bounding box and
\* polygon of one input detection; fusion only drops or tags.
C8_FusionPreservesFields ==
    Fused =>
        \A h \in Range(hybridObjects) :
            \E d \in Range(yoloObjects) \cup Range(googleObjects) :
                /\ SameDetection(h, d)
                /\ h.confidence = d.confidence
                /\ h.polygon = d.polygon

(***************************************************************************)
(* Claims about the removal and replacement workflows.                     *)
(***************************************************************************)
WorkflowDone == wPc = "done"

\* C5: when the generator fails in a replacement workflow, nothing is
\* composited and the result handed to the caller contains the cleaned
\* (object-removed) image.
C5_GeneratorFailureKeepsCleanedImage ==
    (WorkflowDone /\ "generate" \in wFailed
        /\ wKind \in {"sceneDiff", "twoStep", "stepByStep"})
    => /\ wResult.finalImage = NoDims
       /\ wResult.cleanedImage

\* C6: in replaceObjectWithSceneDiff and placeGeneratedObjectWithMask a
\* failure to segment or extract the new object, with nothing else failing,
\* still ends in success.
C6_SegmentationFailureIsNotFatal ==
    (WorkflowDone /\ wKind \in {"sceneDiff", "placeWithMask"}
        /\ wFailed # {} /\ wFailed \subseteq {"extract", "segment"})
    => wResult.outcome = "success"

\* C9: whenever a mask is applied to an image, the mask raster has the
\* width and height of that image and its coordinates were made for (or
\* rescaled to) an image of that size; a mask made for another size is
\* never applied.
C9_MaskMatchesImage ==
    \A i \in 1..Len(wApplied) :
        /\ wApplied[i].raster = wApplied[i].image
        /\ wApplied[i].frame = wApplied[i].image

(***************************************************************************)
(* Claims about crop and mask rectangles.                                  *)
(***************************************************************************)
\* C10: a crop or mask whose rectangle has no area after clamping is a
\* reported failure: no operation returns an empty crop or a mask without a
\* white pixel.
C10_ZeroAreaIsReported ==
    (mPc = "done" /\ mWhite = 0) => mOutcome = "failure"

(***************************************************************************)
(* Further claims about the removal and replacement workflows.             *)
(***************************************************************************)
\* the steps that are an image fetch, a generator call or an inpainting call
ExternalSteps == {"fetch", "generate", "remove", "lama", "inpaint"}

\* C11: when an image fetch, a generator call or an inpainting call has
\* failed in a removal or replacement workflow, the workflow ends in failure
\* and the error handed to the caller contains the message of a failed call.
C11_FailureCarriesUpstreamError ==
    (WorkflowDone /\ wFailed \cap ExternalSteps # {})
    => /\ wResult.outcome \in {"failure", "thrown"}
       /\ \E message \in wUpstream : message \in Range(wResult.error)

(***************************************************************************)
(* Claims about the resolver on the chair example.                         *)
(***************************************************************************)
\* C12: with the single candidate "chair" (confidence 0.9, box x=100, y=100,
\* width=50, height=80) and a path drawn tightly around that box, the
\* resolver returns exactly that object, its total score is above 0.3 and
\* its enclosure factor is above 0.8.
C12_TightPathSelectsChair ==
    (iPc = "done" /\ iObjects = <<ChairCandidate>> /\ iPath \in TightPathPool) =>
        /\ iResult = <<ChairCandidate>>
        /\ Len(iScored) = 1
        /\ iScored[1].score > MeaningfulPct * FactorScale
        /\ iScored[1].factors.enclosure * 10 > 8 * FactorScale

\* the resolver ran on the path lying on the chair's box, where the sample
\* points of the right and bottom edges count as outside
C12_Witness ==
    /\ iPc = "done"
    /\ iObjects = <<ChairCandidate>>
    /\ iPath = TightPathOnBox
    /\ iResult = <<ChairCandidate>>
    /\ iScored[1].factors.enclosure < FactorScale
RECURSIVE Neighbours(_, _)
Neighbours(x, n) ==
    IF n = 0 \/ x = FZero THEN {x}
    ELSE Neighbours(x, n - 1)
             \cup {FSucc(y) : y \in Neighbours(x, n - 1)}
             \cup {FPred(y) : y \in Neighbours(x, n - 1)}

RoundTripDone == sPc = "back" /\ Len(sBack) = Len(sCoords)

\* C14 as stated: rescaling a coordinate list from size A to size B by the
\* independent ratios and then from B back to A reproduces the original
\* coordinates.
C14_Original ==
    sPc = "back" =>
        /\ Len(sBack) = Len(sCoords)
        /\ \A i \in 1..Len(sCoords) : sBack[i] = FromInt(sCoords[i])

\* C14 amended: the round trip reproduces every coordinate up to the
\* rounding of the four floating-point operations involved: the result is
\* the original number or one of the four doubles next to it on either
\* side.
C14_RoundTripWithinRounding ==
    sPc = "back" =>
        /\ Len(sBack) = Len(sCoords)
        /\ \A i \in 1..Len(sCoords) : sBack[i] \in Neighbours(FromInt(sCoords[i]), 4)

\* a mask point of an 800 x 600 image went to 1024 x 1024 and back and one
\* of its coordinates came back as a neighbouring double
C14_Witness ==
    /\ RoundTripDone
    /\ sFrom = Dims(800, 600)
    /\ sTo = Dims(GeneratedSize, GeneratedSize)
    /\ Len(sCoords) = 2
    /\ \E i \in 1..2 : sBack[i] # FromInt(sCoords[i])
    /\ \E i \in 1..2 : sBack[i] = FromInt(sCoords[i]) /\ sCoords[i] > 0
(***************************************************************************)
(* Claims about the overlap ratio.                                         *)
(***************************************************************************)
\* the boxes both detectors reported in this run
ReportedBoxes == Range(yoloObjects) \cup Range(googleObjects)

DetectorsReturned == rPc \in {"fuse", "resolved", "settled"}

\* C15: the IoU overlap ratio is symmetric: for any two reported boxes a
\* and b the ratio for (a, b) equals the ratio for (b, a) in both
\* calculateIoU functions, and the decision of objectsOverlap is the same
\* in both argument orders at every threshold from 0.0 to 1.0.
C15_OverlapIsSymmetric ==
    DetectorsReturned =>
        \A a \in ReportedBoxes : \A b \in ReportedBoxes :
            /\ calculateIoU(a, b) = calculateIoU(b, a)
            /\ calculateIoU11(a, b) = calculateIoU11(b, a)
            /\ calculateIoU(a, b) = calculateIoU11(a, b)
            /\ \A t \in 0..10 : objectsOverlap(a, b, t) = objectsOverlap(b, a, t)

\* the fusion compared two boxes of different sizes that overlap in part
C15_Witness ==
    /\ rPc = "resolved"
    /\ \E y \in Range(yoloObjects) : \E g \in Range(googleObjects) :
          /\ y.width * y.height # g.width * g.height
          /\ objectsOverlap(g, y, SameNameOverlapTenths)
          /\ ~objectsOverlap(g, y, SpatialOverlapTenths)
(***************************************************************************)
(* Claims about the geometry helpers.                                      *)
(***************************************************************************)
Analyzed == iPc \in {"done", "again"}

\* the whole-pixel points of the path's box and of a margin of one pixel
PointsAround(path) ==
    LET b == getPathBounds(path)
    IN ((b.x - 1)..(b.x + b.width + 1)) \X ((b.y - 1)..(b.y + b.height + 1))

\* C16: with fewer than 3 vertices isPointInPath is false for every point
\* and raises no error: no point on or around the path is inside it, and
\* every candidate scored against such a path has enclosure and containment
\* factors of 0.
C16_ShortPathContainsNothing ==
    (Analyzed /\ Len(iPath) < 3) =>
        /\ \A p \in PointsAround(iPath) : ~isPointInPath(p[1], p[2], 1, iPath)
        /\ \A i \in 1..Len(iPath) : ~isPointInPath(2 * iPath[i].x + 1, 2 * iPath[i].y + 1, 2, iPath)
        /\ \A k \in 1..Len(iScored) :
              /\ iScored[k].factors.enclosure = 0
              /\ iScored[k].factors.containment = 0

\* a stroke of two points was resolved and still selected a candidate, whose
\* score owes nothing to enclosure
C16_Witness ==
    /\ iPc = "done"
    /\ Len(iPath) = 2
    /\ iResult # <<>>
    /\ \A k \in 1..Len(iScored) : iScored[k].factors.enclosure = 0

\* C17: getPathBounds returns the zero box for an empty path; for any other
\* path it returns the smallest axis-aligned box holding every point, with
\* width and height not negative.
C17_PathBoundsAreTight ==
    LET b == getPathBounds(iPath)
    IN iPc # "off" =>
        IF Len(iPath) = 0 THEN b = [x |-> 0, y |-> 0, width |-> 0, height |-> 0]
        ELSE /\ b.width >= 0
             /\ b.height >= 0
             /\ \A i \in 1..Len(iPath) :
                   /\ b.x <= iPath[i].x /\ iPath[i].x <= b.x + b.width
                   /\ b.y <= iPath[i].y /\ iPath[i].y <= b.y + b.height
             /\ \E i \in 1..Len(iPath) : iPath[i].x = b.x
             /\ \E i \in 1..Len(iPath) : iPath[i].x = b.x + b.width
             /\ \E i \in 1..Len(iPath) : iPath[i].y = b.y
             /\ \E i \in 1..Len(iPath) : iPath[i].y = b.y + b.height

\* the resolver took the bounds of a stroke drawn from bottom right to top
\* left, away from the origin
C17_Witness ==
    /\ iPc = "done"
    /\ iPath = StrokePath
    /\ Len(iScored) >= 1
    /\ getPathBounds(iPath) = [x |-> 2, y |-> 2, width |-> 8, height |-> 8]
(***************************************************************************)
(* Claims about which Google detections the fusion drops.                  *)
(***************************************************************************)
\* the intersection over union of the two boxes is at least tenths / 10
IoUAtLeast(o1, o2, tenths) ==
    LET unionArea == o1.width * o1.height + o2.width * o2.height - OverlapArea(o1, o2)
    IN unionArea > 0 /\ OverlapArea(o1, o2) * 10 >= tenths * unionArea

\* g overlaps a YOLO detection that passed the confidence threshold
ConflictsWithAccepted(g) ==
    \E i \in 1..Len(yoloObjects) :
        /\ yoloObjects[i].confidence >= ConfidenceThresholdPct
        /\ \/ IoUAtLeast(g, yoloObjects[i], SpatialOverlapTenths)
           \/ /\ ToLowerCase(g.name) = ToLowerCase(yoloObjects[i].name)
              /\ IoUAtLeast(g, yoloObjects[i], SameNameOverlapTenths)

\* C18: a Google Vision detection is missing from the fused list only when
\* it overlaps an accepted YOLO detection (confidence >= 0.35) with IoU of
\* at least 0.3, or with the same case-insensitive name and IoU of at least
\* 0.1; every Google detection without such an overlap is in the fused
\* list.
C18_GoogleDroppedOnlyForAccepted ==
    Fused =>
        \A j \in 1..Len(googleObjects) :
            ~ConflictsWithAccepted(googleObjects[j])
                => TagGoogle(googleObjects[j]) \in Range(hybridObjects)
(***************************************************************************)
(* Claims about the order of removal and generation.                       *)
(***************************************************************************)
\* the request to the generator is under way
GeneratorAsked ==
    wKind \in {"sceneDiff", "twoStep", "stepByStep"} /\ wPc = "generate"

\* C19: in every replacement workflow the generator is asked for the
\* replacement content only after the original object has been removed
\* from the image successfully.
C19_GeneratorAfterRemoval ==
    GeneratorAsked => wClean
(***************************************************************************)
(* Claims about pointer events and responses.                              *)
(***************************************************************************)
\* C20: under any interleaving of pointer events and recognition
\* responses, the detections put on the screen were resolved against the
\* drawing path sent with that same request, and the response of an earlier
\* path is never applied after the user has started a new drawing (the
\* requests of the empty path, for the whole image, are left aside here).
C20_ResponseMatchesShownPath ==
    lastApplied.applied =>
        /\ lastApplied.resolved = lastApplied.sent
        /\ ~(lastApplied.stale /\ Len(lastApplied.sent) > 0)
(***************************************************************************)
(* Claims about which YOLO detections the fusion accepts.                  *)
(***************************************************************************)
\* the fused list holds the YOLO detection y
AcceptedYolo(y) == TagYolo(y) \in Range(hybridObjects)

\* C21: a YOLO detection is in the fused list exactly when its confidence is
\* strictly greater than the acceptance threshold of 0.35.
C21_YoloAcceptedAboveThreshold ==
    Fused =>
        \A i \in 1..Len(yoloObjects) :
            AcceptedYolo(yoloObjects[i])
                <=> yoloObjects[i].confidence > ConfidenceThresholdPct
(***************************************************************************)
(* Claims about the range of the scoring factors.                          *)
(***************************************************************************)
InUnitInterval(factor) == 0 <= factor /\ factor <= FactorScale

\* C22: for every non-empty drawing path and every candidate with a
\* confidence in [0, 1], each of the five factors of the intention resolver
\* (enclosure, distance, size, confidence, containment) lies in [0, 1].
C22_FactorsInUnitInterval ==
    (Analyzed /\ Len(iPath) > 0) =>
        \A k \in 1..Len(iScored) :
            (0 <= iScored[k].object.confidence /\ iScored[k].object.confidence <= 100)
            => /\ InUnitInterval(iScored[k].factors.enclosure)
               /\ InUnitInterval(iScored[k].factors.distance)
               /\ InUnitInterval(iScored[k].factors.size)
               /\ InUnitInterval(iScored[k].factors.confidence)
               /\ InUnitInterval(iScored[k].factors.containment)
(***************************************************************************)
(* Claims about the tags of the surviving Google detections.               *)
(***************************************************************************)
\* C23: a Google Vision detection in the fused list is tagged canSegment
\* exactly when mapToYOLOClass has an equivalent YOLO class for its name,
\* and is tagged bounding-box only exactly when the mapping has none.
C23_CanSegmentFollowsMapping ==
    Fused =>
        \A h \in Range(hybridObjects) :
            h.source = "Google Vision"
            => /\ h.canSegment <=> (mapToYOLOClass(h.name) # "null")
               /\ (h.segmentationNote = <<"No YOLO equivalent - bounding box only">>)
                      <=> (mapToYOLOClass(h.name) = "null")
(***************************************************************************)
(* Claims about picking an object and replacing it (under SpecReplacer).   *)
(***************************************************************************)
\* C24: when the picked object carries its own polygon, the segmentation
\* handed to the replacement workflow is that polygon; another shape is
\* used only for an object without a polygon.
C24_PolygonIsSegmentation ==
    (gStarted # <<>> /\ Len(gStarted[1].object.polygon) > 0)
    => wMask.coords = gStarted[1].object.polygon

\* the step in which replaceObjectStepByStep is called
WorkflowStarts == wKind = "none" /\ wKind' = "stepByStep"

\* C26: the replacement workflow starts only with exactly one selected
\* object, and that object is the one the user clicked in the list of
\* candidates shown, also when the resolver returned several candidates.
C26_WorkflowOnlyAfterPick ==
    [][WorkflowStarts =>
          /\ Len(selectedObjectForGrokReplacement) = 1
          /\ Len(gPicked) = 1
          /\ selectedObjectForGrokReplacement[1].object = gPicked[1].object
          /\ \E i \in 1..Len(gPicked[1].shown) : gPicked[1].shown[i] = gPicked[1].object
          /\ gStarted' = selectedObjectForGrokReplacement]_vars

C26_Witness ==
    /\ wKind = "stepByStep"
    /\ Len(gStarted) = 1
    /\ Len(gPicked) = 1
    /\ Len(gPicked[1].shown) > 1
    /\ gStarted[1].object = gPicked[1].shown[2]

\* handleReplace has returned
ReplaceReturned == gStarted # <<>> /\ ~isProcessing /\ wPc = "done"

\* C28: whenever the workflow started from GrokObjectReplacer reports
\* success, PenSelector shows the final composite, the replacer is closed,
\* and the drawing path and the detected-object list are empty.
C28_SuccessUpdatesSelector ==
    (ReplaceReturned /\ wResult.outcome = "success")
    => /\ processedImageUrl = "final"
       /\ selectedObjectForGrokReplacement = <<>>
       /\ gPath = <<>>
       /\ gDetected = <<>>
(***************************************************************************)
(* Claims about the order of detection, fusion and intention resolution.   *)
(***************************************************************************)
\* a detector call is under way: mutationFn is suspended at its await
DetectorCallPending == rPc \in {"yolo", "google"}

\* the step that assigns hybridObjects, and the one that resolves the intention
FusionStep == rPc # "resolved" /\ rPc' = "resolved"
ResolutionStep == detectedObjects' # detectedObjects \/ (rPc # "settled" /\ rPc' = "settled")

\* C25: the fusion step runs only after each detector call of the run has
\* returned or failed, and the intention is resolved only after the fusion
\* has produced its list; a failed detector contributes an empty list, and
\* the results of the other detector are fused all the same.
C25_FusionIsBarrier ==
    [][/\ FusionStep =>
             /\ ~DetectorCallPending
             /\ rPc = "fuse"
             /\ yoloFailed => yoloObjects = <<>>
             /\ googleFailed => googleObjects = <<>>
             /\ hybridObjects' = FuseDetections(IF yoloFailed THEN <<>> ELSE yoloObjects,
                                                IF googleFailed THEN <<>> ELSE googleObjects)
             /\ (yoloFailed /\ ~googleFailed) =>
                    \A j \in 1..Len(googleObjects) :
                        TagGoogle(googleObjects[j]) \in Range(hybridObjects')
             /\ (googleFailed /\ ~yoloFailed) =>
                    \A i \in 1..Len(yoloObjects) :
                        yoloObjects[i].confidence >= ConfidenceThresholdPct
                        => TagYolo(yoloObjects[i]) \in Range(hybridObjects')
       /\ ResolutionStep =>
             /\ rPc = "resolved"
             /\ detectedObjects' = analyzeUserIntention(rPath, hybridObjects)
             /\ hybridObjects' = hybridObjects]_vars

C25_Witness ==
    /\ rPc = "settled"
    /\ yoloFailed /\ ~googleFailed
    /\ Len(googleObjects) = 2
    /\ Len(hybridObjects) = 2
    /\ Len(detectedObjects) > 0
(***************************************************************************)
(* Claims about where the crop and mask rectangles lie.                    *)
(***************************************************************************)
\* C27: for every polygon or bounding box and every image size, the
\* rectangle cropObjectFromImage, createSimpleMask and
\* createBoundingBoxMask compute lies inside the image and has no negative
\* side: 0 <= x, 0 <= y, width >= 0, height >= 0, x + width <= imageWidth
\* and y + height <= imageHeight.
C27_RectangleInsideImage ==
    mPc = "done" =>
        /\ 0 <= mRect.x /\ 0 <= mRect.y
        /\ mRect.width >= 0 /\ mRect.height >= 0
        /\ mRect.x + mRect.width <= mImage.width
        /\ mRect.y + mRect.height <= mImage.height
(***************************************************************************)
(* Claims about /api/grok/smart-edit (under SpecSmartEdit).                *)
(***************************************************************************)
\* the request of the response had both imageUrl and prompt
CompleteEdit(response) ==
    /\ response.request.path = "/smart-edit"
    /\ response.request.imageUrl # ""
    /\ response.request.prompt # ""

\* C30: a POST to /api/grok/smart-edit with imageUrl and prompt tries the
\* Grok web automation first, turns to API generation only when the web
\* automation did not succeed, and is answered with an error only when
\* both have failed; one response is sent per request.
C30_WebAutomationFirst ==
    /\ \A k \in 1..Len(eResponses) :
          CompleteEdit(eResponses[k]) =>
              /\ Len(eResponses[k].tried) > 0
              /\ eResponses[k].tried[1] \in {"web-automation", "web-automation-failed"}
              /\ eResponses[k].status = 200 =>
                     eResponses[k].method \in {"web-automation", "api-generation-fallback"}
              /\ eResponses[k].method = "api-generation-fallback" =>
                     eResponses[k].tried[1] = "web-automation-failed"
              /\ eResponses[k].status # 200 =>
                     eResponses[k].tried
                         = <<"web-automation-failed", "api-generation-failed">>
    /\ ePc = "idle" => Len(eResponses) = eCount
    /\ eSent <= 1
(***************************************************************************)
(* Claims about the progress events of replaceObjectStepByStep (under      *)
(* SpecWorkflow).                                                          *)
(***************************************************************************)
ProgressOrder == <<"cropping", "cropped", "generating", "generated", "placing">>

Announced(step) == \E k \in 1..Len(wProgress) : wProgress[k] = step

\* C29: replaceObjectStepByStep announces its progress only in the order
\* cropping, cropped, generating, generated, placing, each at most once;
\* 'cropped' only after a successful crop, 'generated' only after a
\* successful generation; once a step has failed nothing more is announced
\* and the call returns a failure result.
C29_ProgressInOrder ==
    wKind = "stepByStep" =>
        /\ Len(wProgress) <= Len(ProgressOrder)
        /\ wProgress = SubSeq(ProgressOrder, 1, Len(wProgress))
        /\ Announced("cropped") => wCropped
        /\ Announced("generated") => wGenerated # NoDims
        /\ "crop" \in wFailed =>
               /\ wProgress = <<"cropping">>
               /\ wPc = "done" /\ wResult.outcome = "failure"
        /\ "generate" \in wFailed =>
               /\ wProgress = <<"cropping", "cropped", "generating">>
               /\ wPc = "done" /\ wResult.outcome = "failure"
        /\ wResult.outcome = "success" => wProgress = ProgressOrder /\ wFailed = {}

\* the generation failed after a successful crop
C29_Witness ==
    /\ wKind = "stepByStep"
    /\ wPc = "done"
    /\ wFailed = {"generate"}
    /\ wCropped
    /\ wProgress = <<"cropping", "cropped", "generating">>
    /\ wResult.outcome = "failure"
====
